---- MODULE Spec2Model ----
(***************************************************************************)
(* Model of internal/worker/pool.go of go-toc: the worker Pool, the batch  *)
(* runners ProcessAll / ProcessAllWithContext and the sequential runners   *)
(* ProcessSequential / ProcessSequentialWithContext.                       *)
(*                                                                         *)
(* A Go channel is a FIFO buffer (a sequence) plus a closed flag; a send   *)
(* on a buffered channel is enabled while the buffer is below capacity, a  *)
(* receive while it is non-empty, and a receive on an empty closed channel *)
(* reports "closed".  A select with several ready cases takes any of them. *)
(* Each goroutine is a program counter; one action is one synchronisation  *)
(* step of one goroutine.                                                  *)
(***************************************************************************)
EXTENDS Naturals, Integers, Sequences, FiniteSets, Bags, TLC

\* ---------------------------------------------------------------- bounds
MaxJobs == 3
MaxWorkers == 2
MaxCalls == 5
MaxCPU == 4

\* ----------------------------------------------------------------- state
VARIABLES
  runner,        \* the entry point this behaviour exercises
  jobs,          \* the []Job argument (for a Pool: the jobs callers Submit)
  workersArg,    \* the `workers` argument as passed by the caller
  processFunc,   \* the `processFunc` argument: the function the caller wrote
  sequential,    \* extractSummaries: its `sequential` argument
  numCPU,        \* ... what runtime.NumCPU() returns
  epc,           \* ... where the call stands ("idle": it is not the caller)
  summaries,     \* ... and the map it returns
  ctxDone,       \* the cancellation token: ctx.Done() is closed
  workers,       \* Pool.workers / the clamped local `workers` (0: not built)
  jobsChan,      \* Pool.jobs / jobsChan: buffered jobs
  jobsClosed,    \* ... and whether it was closed
  resultsChan,   \* Pool.results / resultsChan: buffered results
  resultsClosed, \* ... and whether it was closed
  wg,            \* the sync.WaitGroup counter
  wstate,        \* the bag of worker goroutines: where each stands in
                 \* its loop, its local `job` and its local `result`
  spc,           \* the submission goroutine
  sidx,          \* ... and the index of the next job it sends
  cpc,           \* the goroutine that waits for the workers, closes results
  mpc,           \* the calling goroutine of the parallel runner
  results,       \* the map it collects and returns
 closeOnce,     \* Pool.closeOnce
  callers,       \* goroutines that call Start / Submit / Close on a Pool
  seqpc,         \* the calling goroutine of the sequential runner
  seqIdx,        \* ... its loop index
  seqJob,        \* ... its local `job`
  seqResults,    \* ... and the map it returns
  received,      \* per job: times a worker took it off the queue to run it
  invoked,       \* per job: processFunc invocations begun in the parallel run
  completed,     \* per job: processFunc invocations that returned
  pushed,        \* per job: results sent to the result channel
  lateStart,     \* a Start call overlapped or followed a Close call
  lateSubmit,    \* a Submit call overlapped or followed a Close call
  last,          \* per identity: the job whose invocation returned last,
                 \* and the job whose Result was pushed last (0: none)
  seqOrder,      \* jobs in the order the sequential runner invoked processFunc
  atCancel,      \* what had happened when the token was cancelled, and
                 \* the job the sequential runner was executing then (or 0)
  panicked       \* the runtime error that crashed the program, or "none"

vars == <<runner, jobs, workersArg, processFunc, sequential, numCPU, epc,
          summaries, ctxDone, workers, jobsChan, jobsClosed,
          resultsChan, resultsClosed, wg, wstate, spc, sidx, cpc,
          mpc, results, closeOnce, callers, seqpc, seqIdx, seqJob,
          seqResults, received, invoked, completed, pushed, lateStart,
          lateSubmit, last, seqOrder, atCancel, panicked>>

poolVars == <<workers, jobsChan, jobsClosed, resultsChan, resultsClosed, wg,
              wstate, closeOnce>>
runVars == <<spc, sidx, cpc, mpc, results>>
callVars == <<callers>>
seqVars == <<seqpc, seqIdx, seqJob, seqResults, seqOrder>>
extVars == <<sequential, numCPU, epc, summaries>>
argVars == <<runner, jobs, workersArg, processFunc, extVars>>
logVars == <<received, completed, lateStart, lateSubmit, last>>

\* ------------------------------------------------------------ data model
NoJob == [FilePath |-> 0, Data |-> 0]
NoResult == [FilePath |-> 0, Summary |-> 0, Error |-> "nil"]
EmptyMap == [k \in {} |-> NoResult]

\* A job list: job i carries its position as Data.  Identities are named
\* in the order of their first occurrence (an identity is 1, or at most one
\* more than some earlier one), which yields every pattern of equal and
\* distinct identities once.
Identities(n) ==
  { q \in [1..n -> 1..n] :
      \A i \in 1..n : q[i] = 1 \/ \E j \in 1..(i - 1) : q[i] <= q[j] + 1 }
JobLists ==
  UNION { { [i \in 1..n |-> [FilePath |-> p[i], Data |-> i]] :
              p \in Identities(n) } :
          n \in 0..MaxJobs }

\* The jobs handed to a Pool used directly: the pool never reads an identity
\* and a caller may stop submitting at any point, so one list of distinct
\* jobs stands for them all.
PoolJobs == [i \in 1..MaxJobs |-> [FilePath |-> i, Data |-> i]]

\* processFunc as the callers write it: it copies the job identity, derives
\* the summary from the job alone and reports a failure in Result.Error.
\* Every second job of a list is one that fails.
Fails(job) == job.Data % 2 = 0

\* The two kinds of processFunc a caller can pass.  One that "copies" keeps
\* the contract: its Result carries the identity of its job.  One that
\* "renames" breaks it for the jobs that do not fail: their Result carries
\* the identity that follows the job's own.
ResultPath(job) ==
  IF processFunc = "renames" /\ ~Fails(job)
    THEN job.FilePath + 1
    ELSE job.FilePath
ProcessFunc(job) ==
  [FilePath |-> ResultPath(job), Summary |-> job.Data,
   Error |-> IF Fails(job) THEN "err" ELSE "nil"]
\* Mutant of MapPut: the map is keyed by the summary instead of the identity.
MapPutBySummary(m, result) ==
  [k \in (DOMAIN m) \cup {result.Summary} |->
     IF k = result.Summary THEN result ELSE m[k]]

\* results[result.FilePath] = result
MapPut(m, result) ==
  [k \in (DOMAIN m) \cup {result.FilePath} |->
     IF k = result.FilePath THEN result ELSE m[k]]
\* Mutant of Clamp: the worker count is taken as given.
ClampMissing(w) == w

\* workers <= 0 is replaced by 1
Clamp(w) == IF w <= 0 THEN 1 ELSE w
\* Mutant of Capacity: the buffers have room for one element more.
CapacityPlusOne == workers * 2 + 1

\* make(chan _, workers*2)
Capacity == workers * 2

Bump(f, i) == [f EXCEPT ![i] = @ + 1]

\* Workers have no identity of their own: `wstate` is the bag of their states.
\* A worker's locals are dead outside the iteration that set them, and are
\* kept at NoJob / NoResult there.
NewWorker(pc) == [pc |-> pc, job |-> NoJob, result |-> NoResult]
Workers == BagToSet(wstate)
WorkerMoved(w, v) == (wstate (-) SetToBag({w})) (+) SetToBag({v})
WorkersAt(pc) == { w \in Workers : w.pc = pc }
RECURSIVE CopiesOf(_)
CopiesOf(S) ==
  IF S = {} THEN 0
  ELSE LET w == CHOOSE x \in S : TRUE
       IN CopiesIn(w, wstate) + CopiesOf(S \ {w})
\* the number of processFunc invocations in progress
Executing == CopiesOf(WorkersAt("process"))

ParallelRunners == {"ProcessAll", "ProcessAllWithContext"}
CtxRunners == {"ProcessAllWithContext"}
Runners == ParallelRunners \cup {"Pool"}

\* The whole program dies on a runtime error raised in any goroutine.
Crash(msg) ==
  /\ panicked' = msg
  /\ UNCHANGED <<argVars, ctxDone, poolVars, runVars, callVars, seqVars,
                 invoked, pushed, atCancel, logVars>>

Running == panicked = "none"

\* ------------------------------------------------------------------ Init
\* The arguments of a runner that is called directly ...
Arguments ==
  /\ runner \in Runners
  /\ jobs \in (IF runner = "Pool" THEN {PoolJobs} ELSE JobLists)
  /\ workersArg \in 0..MaxWorkers

\* ... in which case extractSummaries takes no part.
Direct ==
  /\ sequential = FALSE /\ numCPU = 1
  /\ epc = "idle" /\ summaries = EmptyMap

\* Nothing is built and nothing has run.
Setup ==
  /\ Running
  /\ ctxDone \in (IF runner \in CtxRunners THEN BOOLEAN ELSE {FALSE})
  /\ workers = 0
  /\ jobsChan = <<>> /\ jobsClosed = FALSE
  /\ resultsChan = <<>> /\ resultsClosed = FALSE
  /\ wg = 0
  /\ wstate = EmptyBag
  /\ spc = "idle" /\ sidx = 1 /\ cpc = "idle"
  /\ mpc = "call" /\ results = EmptyMap
  /\ closeOnce = "fresh"
  /\ callers = EmptyBag
  /\ seqpc = "idle" /\ seqIdx = 1 /\ seqJob = NoJob
  /\ seqResults = EmptyMap /\ seqOrder = <<>>
  /\ received = [i \in 1..Len(jobs) |-> 0]
  /\ invoked = [i \in 1..Len(jobs) |-> 0]
  /\ completed = [i \in 1..Len(jobs) |-> 0]
  /\ lateStart = FALSE
  /\ lateSubmit = FALSE
  /\ last = [done |-> [k \in { jobs[i].FilePath : i \in 1..Len(jobs) } |-> 0],
             pushed |-> [k \in { jobs[i].FilePath : i \in 1..Len(jobs) } |-> 0]]
  /\ pushed = [i \in 1..Len(jobs) |-> 0]
  /\ atCancel = [cancelled |-> ctxDone, invoked |-> 0, completed |-> 0,
                 pushed |-> 0, running |-> 0, received |-> 0]
  /\ panicked = "none"

\* The callers of this repository pass a processFunc that copies the identity.
Init == Arguments /\ processFunc = "copies" /\ Direct /\ Setup

\* ------------------------------------------------------------ Pool.Start
\* Mutant of SpawnCount: the loop runs with i <= p.workers.
SpawnCountOffByOne(w) == w + 1

\* for i := 0; i < p.workers; i++ : the number of workers Start spawns
SpawnCount(w) == w

\* The worker goroutines as Start leaves them: each at the top of its loop.
Spawned(n, pc) == [w \in {NewWorker(pc)} |-> n]

\* ----------------------------------------------------------- Pool.worker
\* Mutant of WorkerRecv: the worker reads the head of the queue and leaves
\* it there.
WorkerRecvLeavesJob(w) ==
  /\ Running
  /\ runner \in {"ProcessAll", "Pool"}
  /\ w.pc = "recv"
  /\ jobsChan # <<>>
  /\ wstate' = WorkerMoved(w, [w EXCEPT !.pc = "process",
                                       !.job = Head(jobsChan)])
  /\ invoked' = Bump(invoked, Head(jobsChan).Data)
  /\ received' = Bump(received, Head(jobsChan).Data)
  /\ UNCHANGED <<argVars, ctxDone, workers, jobsChan, jobsClosed, resultsChan,
                 resultsClosed, wg, closeOnce, runVars, callVars,
                 seqVars, pushed, atCancel, completed, lateStart, lateSubmit,
                 last, panicked>>

\* for job := range p.jobs : a job is received and processFunc is entered
WorkerRecv(w) ==
  /\ Running
  /\ runner \in {"ProcessAll", "Pool"}
  /\ w.pc = "recv"
  /\ jobsChan # <<>>
  /\ jobsChan' = Tail(jobsChan)
  /\ wstate' = WorkerMoved(w, [w EXCEPT !.pc = "process",
                                       !.job = Head(jobsChan)])
  /\ invoked' = Bump(invoked, Head(jobsChan).Data)
  /\ received' = Bump(received, Head(jobsChan).Data)
  /\ UNCHANGED <<argVars, ctxDone, workers, jobsClosed, resultsChan,
                 resultsClosed, wg, closeOnce, runVars, callVars,
                 seqVars, pushed, atCancel, completed, lateStart, lateSubmit, last,
                 panicked>>
\* Mutant of WorkerExit: the worker returns as soon as the queue is closed,
\* whatever is still buffered in it.
WorkerExitOnClose(w) ==
  /\ Running
  /\ runner \in {"ProcessAll", "Pool"}
  /\ w.pc = "recv"
  /\ jobsClosed
  /\ wstate' = WorkerMoved(w, NewWorker("exited"))
  /\ wg' = wg - 1
  /\ UNCHANGED <<argVars, ctxDone, workers, jobsChan, jobsClosed, resultsChan,
                 resultsClosed, closeOnce, runVars, callVars,
                 seqVars, invoked, pushed, atCancel, logVars, panicked>>
\* Mutant of WorkerExit: the worker returns without wg.Done().
WorkerExitNoDone(w) ==
  /\ Running
  /\ runner \in {"ProcessAll", "Pool"}
  /\ w.pc = "recv"
  /\ jobsChan = <<>> /\ jobsClosed
  /\ wstate' = WorkerMoved(w, NewWorker("exited"))
  /\ UNCHANGED <<argVars, ctxDone, workers, jobsChan, jobsClosed, resultsChan,
                 resultsClosed, wg, closeOnce, runVars, callVars,
                 seqVars, invoked, pushed, atCancel, logVars, panicked>>

\* the range loop ends on a closed, drained channel; defer p.wg.Done()
WorkerExit(w) ==
  /\ Running
  /\ runner \in {"ProcessAll", "Pool"}
  /\ w.pc = "recv"
  /\ jobsChan = <<>> /\ jobsClosed
  /\ wstate' = WorkerMoved(w, NewWorker("exited"))
  /\ wg' = wg - 1
  /\ UNCHANGED <<argVars, ctxDone, workers, jobsChan, jobsClosed, resultsChan,
                 resultsClosed, closeOnce, runVars, callVars,
                 seqVars, invoked, pushed, atCancel, logVars, panicked>>

\* result := p.processFunc(job) returns
WorkerProcess(w) ==
  /\ Running
  /\ runner \in {"ProcessAll", "Pool"}
  /\ w.pc = "process"
  /\ wstate' = WorkerMoved(w, [w EXCEPT !.pc = "send",
                                       !.result = ProcessFunc(w.job)])
  /\ completed' = Bump(completed, w.job.Data)
  /\ last' = [last EXCEPT !.done[w.job.FilePath] = w.job.Data]
  /\ UNCHANGED <<argVars, ctxDone, workers, jobsChan, jobsClosed, resultsChan,
                 resultsClosed, wg, closeOnce, runVars, callVars,
                 seqVars, invoked, pushed, atCancel, received, lateStart, lateSubmit,
                 panicked>>
\* Mutant of WorkerSend: a worker whose job failed returns instead of
\* pushing the Result and going on.
WorkerSendStopsOnError(w) ==
  /\ Running
  /\ runner \in {"ProcessAll", "Pool"}
  /\ w.pc = "send"
  /\ ~resultsClosed
  /\ IF w.result.Error # "nil"
       THEN /\ wstate' = WorkerMoved(w, NewWorker("exited"))
            /\ wg' = wg - 1
            /\ UNCHANGED <<resultsChan, pushed, last>>
       ELSE /\ Len(resultsChan) < Capacity
            /\ resultsChan' = Append(resultsChan, w.result)
            /\ pushed' = Bump(pushed, w.job.Data)
            /\ last' = [last EXCEPT !.pushed[w.job.FilePath] = w.job.Data]
            /\ wstate' = WorkerMoved(w, NewWorker("recv"))
            /\ UNCHANGED wg
  /\ UNCHANGED <<argVars, ctxDone, workers, jobsChan, jobsClosed,
                 resultsClosed, closeOnce, runVars, callVars, seqVars,
                 invoked, atCancel, received, completed, lateStart, lateSubmit, panicked>>

\* p.results <- result : blocks while the buffer is full
WorkerSend(w) ==
  /\ Running
  /\ runner \in {"ProcessAll", "Pool"}
  /\ w.pc = "send"
  /\ IF resultsClosed
       THEN Crash("send on closed results channel")
       ELSE /\ Len(resultsChan) < Capacity
            /\ resultsChan' = Append(resultsChan, w.result)
            /\ pushed' = Bump(pushed, w.job.Data)
            /\ last' = [last EXCEPT !.pushed[w.job.FilePath] = w.job.Data]
            /\ wstate' = WorkerMoved(w, NewWorker("recv"))
            /\ UNCHANGED <<argVars, ctxDone, workers, jobsChan, jobsClosed,
                           resultsClosed, wg, closeOnce,
                           runVars, callVars, seqVars, invoked, atCancel,
                           received, completed, lateStart, lateSubmit, panicked>>

\* ------------------------------------------------------------ ProcessAll
\* Mutant of ProcessAll: the early return on an empty job list is missing.
ProcessAllNoEmptyCheck ==
  /\ Running
  /\ runner = "ProcessAll"
  /\ mpc = "call"
  /\ workers' = Clamp(workersArg)
  /\ jobsChan' = <<>> /\ jobsClosed' = FALSE
  /\ resultsChan' = <<>> /\ resultsClosed' = FALSE
  /\ wstate' = Spawned(workers', "recv")
  /\ wg' = workers'
  /\ spc' = "submit" /\ sidx' = 1
  /\ cpc' = "wait"
  /\ mpc' = "collect"
  /\ results' = EmptyMap
  /\ UNCHANGED <<argVars, ctxDone, closeOnce, callVars, seqVars, invoked,
                 pushed, atCancel, logVars, panicked>>

\* The call up to the collection loop: the empty-list return, NewPool,
\* Start and the two go statements.  The caller blocks on nothing before
\* the collection loop, and a worker that runs earlier only waits for jobs.
ProcessAll ==
  /\ Running
  /\ runner = "ProcessAll"
  /\ mpc = "call"
  /\ IF Len(jobs) = 0
       THEN /\ mpc' = "returned"
            /\ results' = EmptyMap
            /\ UNCHANGED <<poolVars, spc, sidx, cpc>>
       ELSE /\ workers' = Clamp(workersArg)
            /\ jobsChan' = <<>> /\ jobsClosed' = FALSE
            /\ resultsChan' = <<>> /\ resultsClosed' = FALSE
            /\ wstate' = Spawned(SpawnCount(workers'), "recv")
            /\ wg' = SpawnCount(workers')
            /\ spc' = "submit" /\ sidx' = 1
            /\ cpc' = "wait"
            /\ mpc' = "collect"
            /\ results' = EmptyMap
            /\ UNCHANGED closeOnce
  /\ UNCHANGED <<argVars, ctxDone, callVars, seqVars, invoked, pushed,
                 atCancel, logVars, panicked>>
\* Mutant of SubmitJob: a non-blocking send that skips the job when the
\* queue is full.
SubmitJobOrSkip ==
  /\ Running
  /\ runner = "ProcessAll"
  /\ spc = "submit"
  /\ sidx <= Len(jobs)
  /\ jobsChan' = IF Len(jobsChan) < Capacity
                   THEN Append(jobsChan, jobs[sidx]) ELSE jobsChan
  /\ sidx' = sidx + 1
  /\ UNCHANGED <<argVars, ctxDone, workers, jobsClosed, resultsChan,
                 resultsClosed, wg, wstate, closeOnce, spc, cpc, mpc, results,
                 callVars, seqVars, invoked, pushed, atCancel, logVars,
                 panicked>>

\* pool.Submit(job) in the submission goroutine: p.jobs <- job
SubmitJob ==
  /\ Running
  /\ runner = "ProcessAll"
  /\ spc = "submit"
  /\ sidx <= Len(jobs)
  /\ IF jobsClosed
       THEN Crash("send on closed jobs channel")
       ELSE /\ Len(jobsChan) < Capacity
            /\ jobsChan' = Append(jobsChan, jobs[sidx])
            /\ sidx' = sidx + 1
            /\ UNCHANGED <<argVars, ctxDone, workers, jobsClosed, resultsChan,
                           resultsClosed, wg, wstate, closeOnce,
                           spc, cpc, mpc, results, callVars, seqVars, invoked,
                           pushed, atCancel, logVars, panicked>>
\* Mutant of SubmitDone: the submission goroutine ends without closing the
\* submission queue.
SubmitDoneNoClose ==
  /\ Running
  /\ runner = "ProcessAll"
  /\ spc = "submit"
  /\ sidx > Len(jobs)
  /\ spc' = "done"
  /\ UNCHANGED <<argVars, ctxDone, poolVars, sidx, cpc, mpc, results,
                 callVars, seqVars, invoked, pushed, atCancel, logVars,
                 panicked>>
\* Mutant of SubmitDone: close(pool.jobs) stands inside the submission loop
\* and runs after the first job already.
SubmitDoneInsideLoop ==
  /\ Running
  /\ runner = "ProcessAll"
  /\ spc = "submit"
  /\ sidx > 1
  /\ IF jobsClosed
       THEN Crash("close of closed channel")
       ELSE /\ jobsClosed' = TRUE
            /\ spc' = IF sidx > Len(jobs) THEN "done" ELSE "submit"
            /\ UNCHANGED <<argVars, ctxDone, workers, jobsChan, resultsChan,
                           resultsClosed, wg, wstate, closeOnce,
                           sidx, cpc, mpc, results, callVars, seqVars, invoked,
                           pushed, atCancel, logVars, panicked>>

\* close(pool.jobs) once every job is submitted
SubmitDone ==
  /\ Running
  /\ runner = "ProcessAll"
  /\ spc = "submit"
  /\ sidx > Len(jobs)
  /\ IF jobsClosed
       THEN Crash("close of closed channel")
       ELSE /\ jobsClosed' = TRUE
            /\ spc' = "done"
            /\ UNCHANGED <<argVars, ctxDone, workers, jobsChan, resultsChan,
                           resultsClosed, wg, wstate, closeOnce,
                           sidx, cpc, mpc, results, callVars, seqVars, invoked,
                           pushed, atCancel, logVars, panicked>>
\* Mutant of WaitReturns: the wait for the workers is missing.
WaitReturnsAtOnce == TRUE

\* wg.Wait() returns when the counter is zero
WaitReturns == wg = 0

\* pool.wg.Wait()
CloserWait ==
  /\ Running
  /\ runner = "ProcessAll"
  /\ cpc = "wait"
  /\ WaitReturns
  /\ cpc' = "close"
  /\ UNCHANGED <<argVars, ctxDone, poolVars, spc, sidx, mpc, results,
                 callVars, seqVars, invoked, pushed, atCancel, logVars, panicked>>

\* close(pool.results)
CloserClose ==
  /\ Running
  /\ runner = "ProcessAll"
  /\ cpc = "close"
  /\ IF resultsClosed
       THEN Crash("close of closed channel")
       ELSE /\ resultsClosed' = TRUE
            /\ cpc' = "done"
            /\ UNCHANGED <<argVars, ctxDone, workers, jobsChan, jobsClosed,
                           resultsChan, wg, wstate, closeOnce,
                           spc, sidx, mpc, results, callVars, seqVars, invoked,
                           pushed, atCancel, logVars, panicked>>
\* Mutant of Collect: the loop keeps the first Result of an identity and
\* ignores the later ones.
CollectKeepsFirst ==
  /\ Running
  /\ runner = "ProcessAll"
  /\ mpc = "collect"
  /\ resultsChan # <<>>
  /\ results' = IF Head(resultsChan).FilePath \in DOMAIN results
                  THEN results ELSE MapPut(results, Head(resultsChan))
  /\ resultsChan' = Tail(resultsChan)
  /\ UNCHANGED <<argVars, ctxDone, workers, jobsChan, jobsClosed,
                 resultsClosed, wg, wstate, closeOnce, spc, sidx,
                 cpc, mpc, callVars, seqVars, invoked, pushed, atCancel,
                 logVars, panicked>>

\* for result := range pool.results { results[result.FilePath] = result }
Collect ==
  /\ Running
  /\ runner = "ProcessAll"
  /\ mpc = "collect"
  /\ resultsChan # <<>>
  /\ results' = MapPut(results, Head(resultsChan))
  /\ resultsChan' = Tail(resultsChan)
  /\ UNCHANGED <<argVars, ctxDone, workers, jobsChan, jobsClosed,
                 resultsClosed, wg, wstate, closeOnce, spc, sidx,
                 cpc, mpc, callVars, seqVars, invoked, pushed, atCancel,
                 logVars, panicked>>
\* Mutant of Return: the collection loop stops as soon as the channel is
\* empty (a non-blocking receive) instead of waiting for it to be closed.
ReturnOnEmpty ==
  /\ Running
  /\ runner = "ProcessAll"
  /\ mpc = "collect"
  /\ resultsChan = <<>>
  /\ mpc' = "returned"
  /\ UNCHANGED <<argVars, ctxDone, poolVars, spc, sidx, cpc, results,
                 callVars, seqVars, invoked, pushed, atCancel, logVars,
                 panicked>>

\* the range loop ends on the closed, drained channel; return results
Return ==
  /\ Running
  /\ runner = "ProcessAll"
  /\ mpc = "collect"
  /\ resultsChan = <<>> /\ resultsClosed
  /\ mpc' = "returned"
  /\ UNCHANGED <<argVars, ctxDone, poolVars, spc, sidx, cpc, results,
                 callVars, seqVars, invoked, pushed, atCancel, logVars, panicked>>

\* ------------------------------------------------- ProcessAllWithContext
RECURSIVE SumTo(_, _)
SumTo(f, n) == IF n = 0 THEN 0 ELSE f[n] + SumTo(f, n - 1)
Total(f) == SumTo(f, Len(jobs))

\* The token is cancelled (cancel() is called or the deadline passes): an
\* event of the environment, possible at any moment.
Cancel ==
  /\ Running
  /\ runner \in CtxRunners
  /\ ~ctxDone
  /\ ctxDone' = TRUE
  /\ atCancel' = [cancelled |-> TRUE, invoked |-> Total(invoked),
                  completed |-> Total(completed), pushed |-> Total(pushed),
                  running |-> IF seqpc = "process" THEN seqIdx ELSE 0,
                  received |-> Total(received)]
  /\ UNCHANGED <<argVars, poolVars, runVars, callVars, seqVars, invoked,
                 pushed, logVars, panicked>>

\* for i := 0; i < workers; i++ : the number of worker goroutines started
CtxSpawnCount(w) == w

\* The call up to the collection loop: the empty-list return, the clamp,
\* the two channels, the workers and the two go statements.
ProcessAllWithContext ==
  /\ Running
  /\ runner = "ProcessAllWithContext"
  /\ mpc = "call"
  /\ IF Len(jobs) = 0
       THEN /\ mpc' = "returned"
            /\ results' = EmptyMap
            /\ UNCHANGED <<poolVars, spc, sidx, cpc>>
       ELSE /\ workers' = Clamp(workersArg)
            /\ jobsChan' = <<>> /\ jobsClosed' = FALSE
            /\ resultsChan' = <<>> /\ resultsClosed' = FALSE
            /\ wstate' = Spawned(CtxSpawnCount(workers'), "select")
            /\ wg' = CtxSpawnCount(workers')
            /\ spc' = "submit" /\ sidx' = 1
            /\ cpc' = "wait"
            /\ mpc' = "collect"
            /\ results' = EmptyMap
            /\ UNCHANGED closeOnce
  /\ UNCHANGED <<argVars, ctxDone, callVars, seqVars, invoked, pushed,
                 atCancel, logVars, panicked>>

\* The worker's outer select, case <-ctx.Done(): go on to drain the jobs.
CtxWorkerSeesDone(w) ==
  /\ Running
  /\ runner = "ProcessAllWithContext"
  /\ w.pc = "select"
  /\ ctxDone
  /\ wstate' = WorkerMoved(w, [w EXCEPT !.pc = "drain"])
  /\ UNCHANGED <<argVars, ctxDone, workers, jobsChan, jobsClosed, resultsChan,
                 resultsClosed, wg, closeOnce, runVars,
                 callVars, seqVars, invoked, pushed, atCancel, logVars, panicked>>

\* for range jobsChan {} : one queued job is discarded
CtxWorkerDrain(w) ==
  /\ Running
  /\ runner = "ProcessAllWithContext"
  /\ w.pc = "drain"
  /\ jobsChan # <<>>
  /\ jobsChan' = Tail(jobsChan)
  /\ UNCHANGED <<argVars, ctxDone, workers, jobsClosed, resultsChan,
                 resultsClosed, wg, wstate, closeOnce, runVars,
                 callVars, seqVars, invoked, pushed, atCancel, logVars, panicked>>
\* Mutant of CtxWorkerDrained: the drain loop ends as soon as the queue is
\* empty (for len(jobsChan) > 0) instead of ranging until it is closed.
CtxWorkerDrainedOnEmpty(w) ==
  /\ Running
  /\ runner = "ProcessAllWithContext"
  /\ w.pc = "drain"
  /\ jobsChan = <<>>
  /\ wstate' = WorkerMoved(w, NewWorker("exited"))
  /\ wg' = wg - 1
  /\ UNCHANGED <<argVars, ctxDone, workers, jobsChan, jobsClosed, resultsChan,
                 resultsClosed, closeOnce, runVars, callVars,
                 seqVars, invoked, pushed, atCancel, logVars, panicked>>

\* the drain loop ends on the closed, drained channel; return; wg.Done()
CtxWorkerDrained(w) ==
  /\ Running
  /\ runner = "ProcessAllWithContext"
  /\ w.pc = "drain"
  /\ jobsChan = <<>> /\ jobsClosed
  /\ wstate' = WorkerMoved(w, NewWorker("exited"))
  /\ wg' = wg - 1
  /\ UNCHANGED <<argVars, ctxDone, workers, jobsChan, jobsClosed, resultsChan,
                 resultsClosed, closeOnce, runVars, callVars,
                 seqVars, invoked, pushed, atCancel, logVars, panicked>>
\* Mutant of CtxWorkerRecv: the received job goes straight to processFunc,
\* without the second look at the token.
CtxWorkerRecvAndRun(w) ==
  /\ Running
  /\ runner = "ProcessAllWithContext"
  /\ w.pc = "select"
  /\ jobsChan # <<>>
  /\ jobsChan' = Tail(jobsChan)
  /\ wstate' = WorkerMoved(w, [w EXCEPT !.pc = "process", !.job = Head(jobsChan)])
  /\ received' = Bump(received, Head(jobsChan).Data)
  /\ invoked' = Bump(invoked, Head(jobsChan).Data)
  /\ UNCHANGED <<argVars, ctxDone, workers, jobsClosed, resultsChan,
                 resultsClosed, wg, closeOnce, runVars, callVars,
                 seqVars, pushed, atCancel, completed, lateStart, lateSubmit,
                 last, panicked>>

\* The worker's outer select, case job, ok := <-jobsChan with ok = true.
CtxWorkerRecv(w) ==
  /\ Running
  /\ runner = "ProcessAllWithContext"
  /\ w.pc = "select"
  /\ jobsChan # <<>>
  /\ jobsChan' = Tail(jobsChan)
  /\ wstate' = WorkerMoved(w, [w EXCEPT !.pc = "recheck", !.job = Head(jobsChan)])
  /\ received' = Bump(received, Head(jobsChan).Data)
  /\ UNCHANGED <<argVars, ctxDone, workers, jobsClosed, resultsChan,
                 resultsClosed, wg, closeOnce, runVars, callVars,
                 seqVars, invoked, pushed, atCancel, completed, lateStart, lateSubmit, last,
                 panicked>>

\* The same case with ok = false: if !ok { return }; wg.Done()
CtxWorkerClosed(w) ==
  /\ Running
  /\ runner = "ProcessAllWithContext"
  /\ w.pc = "select"
  /\ jobsChan = <<>> /\ jobsClosed
  /\ wstate' = WorkerMoved(w, NewWorker("exited"))
  /\ wg' = wg - 1
  /\ UNCHANGED <<argVars, ctxDone, workers, jobsChan, jobsClosed, resultsChan,
                 resultsClosed, closeOnce, runVars, callVars,
                 seqVars, invoked, pushed, atCancel, logVars, panicked>>
\* Mutant of CtxWorkerRecheck: the second look at the token is missing and
\* every job received is processed.
CtxWorkerNoRecheck(w) ==
  /\ Running
  /\ runner = "ProcessAllWithContext"
  /\ w.pc = "recheck"
  /\ wstate' = WorkerMoved(w, [w EXCEPT !.pc = "process"])
  /\ invoked' = Bump(invoked, w.job.Data)
  /\ UNCHANGED <<argVars, ctxDone, workers, jobsChan, jobsClosed, resultsChan,
                 resultsClosed, wg, closeOnce, runVars, callVars, seqVars,
                 pushed, atCancel, logVars, panicked>>

\* The inner select before processing: case <-ctx.Done(): return, else
\* default: processFunc(job) is entered.
CtxWorkerRecheck(w) ==
  /\ Running
  /\ runner = "ProcessAllWithContext"
  /\ w.pc = "recheck"
  /\ IF ctxDone
       THEN /\ wstate' = WorkerMoved(w, NewWorker("exited"))
            /\ wg' = wg - 1
            /\ UNCHANGED invoked
       ELSE /\ wstate' = WorkerMoved(w, [w EXCEPT !.pc = "process"])
            /\ invoked' = Bump(invoked, w.job.Data)
            /\ UNCHANGED wg
  /\ UNCHANGED <<argVars, ctxDone, workers, jobsChan, jobsClosed, resultsChan,
                 resultsClosed, closeOnce, runVars, callVars,
                 seqVars, pushed, atCancel, logVars, panicked>>
\* Mutant of CtxWorkerProcess: an invocation in progress is abandoned when
\* the token is cancelled, and the worker returns without a result.
CtxWorkerProcessAbandons(w) ==
  /\ Running
  /\ runner = "ProcessAllWithContext"
  /\ w.pc = "process"
  /\ IF ctxDone
       THEN /\ wstate' = WorkerMoved(w, NewWorker("exited"))
            /\ wg' = wg - 1
            /\ UNCHANGED <<completed, last>>
       ELSE /\ wstate' = WorkerMoved(w, [w EXCEPT !.pc = "send",
                                            !.result = ProcessFunc(w.job)])
            /\ completed' = Bump(completed, w.job.Data)
            /\ last' = [last EXCEPT !.done[w.job.FilePath] = w.job.Data]
            /\ UNCHANGED wg
  /\ UNCHANGED <<argVars, ctxDone, workers, jobsChan, jobsClosed, resultsChan,
                 resultsClosed, closeOnce, runVars, callVars, seqVars,
                 invoked, pushed, atCancel, received, lateStart, lateSubmit,
                 panicked>>

\* result := processFunc(job) returns
CtxWorkerProcess(w) ==
  /\ Running
  /\ runner = "ProcessAllWithContext"
  /\ w.pc = "process"
  /\ wstate' = WorkerMoved(w, [w EXCEPT !.pc = "send",
                                       !.result = ProcessFunc(w.job)])
  /\ completed' = Bump(completed, w.job.Data)
  /\ last' = [last EXCEPT !.done[w.job.FilePath] = w.job.Data]
  /\ UNCHANGED <<argVars, ctxDone, workers, jobsChan, jobsClosed, resultsChan,
                 resultsClosed, wg, closeOnce, runVars, callVars,
                 seqVars, invoked, pushed, atCancel, received, lateStart, lateSubmit,
                 panicked>>

\* The select after processing, case resultsChan <- result.
CtxWorkerSend(w) ==
  /\ Running
  /\ runner = "ProcessAllWithContext"
  /\ w.pc = "send"
  /\ IF resultsClosed
       THEN Crash("send on closed results channel")
       ELSE /\ Len(resultsChan) < Capacity
            /\ resultsChan' = Append(resultsChan, w.result)
            /\ pushed' = Bump(pushed, w.job.Data)
            /\ last' = [last EXCEPT !.pushed[w.job.FilePath] = w.job.Data]
            /\ wstate' = WorkerMoved(w, NewWorker("select"))
            /\ UNCHANGED <<argVars, ctxDone, workers, jobsChan, jobsClosed,
                           resultsClosed, wg, closeOnce,
                           runVars, callVars, seqVars, invoked, atCancel,
                           received, completed, lateStart, lateSubmit, panicked>>
\* Mutant of CtxWorkerSendCancelled: on cancellation the worker reports the
\* job as cancelled, with a Result of its own making, before it returns.
CtxWorkerSendCancelledReports(w) ==
  /\ Running
  /\ runner = "ProcessAllWithContext"
  /\ w.pc = "send"
  /\ ctxDone
  /\ ~resultsClosed
  /\ Len(resultsChan) < Capacity
  /\ resultsChan' = Append(resultsChan, [w.result EXCEPT !.Error = "canceled"])
  /\ wstate' = WorkerMoved(w, NewWorker("exited"))
  /\ wg' = wg - 1
  /\ UNCHANGED <<argVars, ctxDone, workers, jobsChan, jobsClosed,
                 resultsClosed, closeOnce, runVars, callVars,
                 seqVars, invoked, pushed, atCancel, logVars, panicked>>

\* The select after processing, case <-ctx.Done(): return; wg.Done().
\* The result is not sent.
CtxWorkerSendCancelled(w) ==
  /\ Running
  /\ runner = "ProcessAllWithContext"
  /\ w.pc = "send"
  /\ ctxDone
  /\ wstate' = WorkerMoved(w, NewWorker("exited"))
  /\ wg' = wg - 1
  /\ UNCHANGED <<argVars, ctxDone, workers, jobsChan, jobsClosed, resultsChan,
                 resultsClosed, closeOnce, runVars, callVars,
                 seqVars, invoked, pushed, atCancel, logVars, panicked>>
\* Mutant of CtxSubmitJob: the select has a default case, which skips the
\* job when the queue is full.
CtxSubmitJobOrSkip ==
  /\ Running
  /\ runner = "ProcessAllWithContext"
  /\ spc = "submit"
  /\ sidx <= Len(jobs)
  /\ ~jobsClosed
  /\ jobsChan' = IF Len(jobsChan) < Capacity
                   THEN Append(jobsChan, jobs[sidx]) ELSE jobsChan
  /\ sidx' = sidx + 1
  /\ UNCHANGED <<argVars, ctxDone, workers, jobsClosed, resultsChan,
                 resultsClosed, wg, wstate, closeOnce, spc, cpc, mpc, results,
                 callVars, seqVars, invoked, pushed, atCancel, logVars,
                 panicked>>

\* The submission goroutine's select, case jobsChan <- job.
CtxSubmitJob ==
  /\ Running
  /\ runner = "ProcessAllWithContext"
  /\ spc = "submit"
  /\ sidx <= Len(jobs)
  /\ IF jobsClosed
       THEN Crash("send on closed jobs channel")
       ELSE /\ Len(jobsChan) < Capacity
            /\ jobsChan' = Append(jobsChan, jobs[sidx])
            /\ sidx' = sidx + 1
            /\ UNCHANGED <<argVars, ctxDone, workers, jobsClosed, resultsChan,
                           resultsClosed, wg, wstate, closeOnce,
                           spc, cpc, mpc, results, callVars, seqVars, invoked,
                           pushed, atCancel, logVars, panicked>>

\* close(jobsChan), deferred by the submission goroutine
CtxCloseJobs ==
  IF jobsClosed
    THEN Crash("close of closed channel")
    ELSE /\ jobsClosed' = TRUE
         /\ spc' = "done"
         /\ UNCHANGED <<argVars, ctxDone, workers, jobsChan, resultsChan,
                        resultsClosed, wg, wstate, closeOnce,
                        sidx, cpc, mpc, results, callVars, seqVars, invoked,
                        pushed, atCancel, logVars, panicked>>
\* Mutant of CtxSubmitCancelled: close(jobsChan) follows the loop instead of
\* being deferred, so the return on cancellation skips it.
CtxSubmitCancelledNoClose ==
  /\ Running
  /\ runner = "ProcessAllWithContext"
  /\ spc = "submit"
  /\ sidx <= Len(jobs)
  /\ ctxDone
  /\ spc' = "done"
  /\ UNCHANGED <<argVars, ctxDone, poolVars, sidx, cpc, mpc, results,
                 callVars, seqVars, invoked, pushed, atCancel, logVars,
                 panicked>>
\* Mutant of CtxSubmitCancelled: the cancellation case hands the job of the
\* current iteration to the queue (when there is room) before it returns.
CtxSubmitCancelledSendsFirst ==
  /\ Running
  /\ runner = "ProcessAllWithContext"
  /\ spc = "submit"
  /\ sidx <= Len(jobs)
  /\ ctxDone
  /\ ~jobsClosed
  /\ jobsChan' = IF Len(jobsChan) < Capacity
                   THEN Append(jobsChan, jobs[sidx]) ELSE jobsChan
  /\ jobsClosed' = TRUE
  /\ spc' = "done"
  /\ UNCHANGED <<argVars, ctxDone, workers, resultsChan, resultsClosed, wg,
                 wstate, closeOnce, sidx, cpc, mpc, results, callVars,
                 seqVars, invoked, pushed, atCancel, logVars, panicked>>

\* The submission goroutine's select, case <-ctx.Done(): return.
CtxSubmitCancelled ==
  /\ Running
  /\ runner = "ProcessAllWithContext"
  /\ spc = "submit"
  /\ sidx <= Len(jobs)
  /\ ctxDone
  /\ CtxCloseJobs

\* The submission loop is over: the goroutine returns.
CtxSubmitDone ==
  /\ Running
  /\ runner = "ProcessAllWithContext"
  /\ spc = "submit"
  /\ sidx > Len(jobs)
  /\ CtxCloseJobs

\* wg.Wait()
CtxCloserWait ==
  /\ Running
  /\ runner = "ProcessAllWithContext"
  /\ cpc = "wait"
  /\ WaitReturns
  /\ cpc' = "close"
  /\ UNCHANGED <<argVars, ctxDone, poolVars, spc, sidx, mpc, results,
                 callVars, seqVars, invoked, pushed, atCancel, logVars, panicked>>

\* close(resultsChan)
CtxCloserClose ==
  /\ Running
  /\ runner = "ProcessAllWithContext"
  /\ cpc = "close"
  /\ IF resultsClosed
       THEN Crash("close of closed channel")
       ELSE /\ resultsClosed' = TRUE
            /\ cpc' = "done"
            /\ UNCHANGED <<argVars, ctxDone, workers, jobsChan, jobsClosed,
                           resultsChan, wg, wstate, closeOnce,
                           spc, sidx, mpc, results, callVars, seqVars, invoked,
                           pushed, atCancel, logVars, panicked>>
\* Mutant of CtxCollect: the Result is stored under the identity of the job
\* it came from.
CtxCollectKeyedByJob ==
  /\ Running
  /\ runner = "ProcessAllWithContext"
  /\ mpc = "collect"
  /\ resultsChan # <<>>
  /\ results' = [k \in (DOMAIN results)
                         \cup {jobs[Head(resultsChan).Summary].FilePath} |->
                    IF k = jobs[Head(resultsChan).Summary].FilePath
                      THEN Head(resultsChan) ELSE results[k]]
  /\ resultsChan' = Tail(resultsChan)
  /\ UNCHANGED <<argVars, ctxDone, workers, jobsChan, jobsClosed,
                 resultsClosed, wg, wstate, closeOnce, spc, sidx,
                 cpc, mpc, callVars, seqVars, invoked, pushed, atCancel,
                 logVars, panicked>>

\* for result := range resultsChan { results[result.FilePath] = result }
CtxCollect ==
  /\ Running
  /\ runner = "ProcessAllWithContext"
  /\ mpc = "collect"
  /\ resultsChan # <<>>
  /\ results' = MapPut(results, Head(resultsChan))
  /\ resultsChan' = Tail(resultsChan)
  /\ UNCHANGED <<argVars, ctxDone, workers, jobsChan, jobsClosed,
                 resultsClosed, wg, wstate, closeOnce, spc, sidx,
                 cpc, mpc, callVars, seqVars, invoked, pushed, atCancel,
                 logVars, panicked>>
\* Mutant of CtxReturn: the collection loop stops as soon as the channel is
\* empty instead of waiting for it to be closed.
CtxReturnOnEmpty ==
  /\ Running
  /\ runner = "ProcessAllWithContext"
  /\ mpc = "collect"
  /\ resultsChan = <<>>
  /\ mpc' = "returned"
  /\ UNCHANGED <<argVars, ctxDone, poolVars, spc, sidx, cpc, results,
                 callVars, seqVars, invoked, pushed, atCancel, logVars,
                 panicked>>

\* the range loop ends on the closed, drained channel; return results
CtxReturn ==
  /\ Running
  /\ runner = "ProcessAllWithContext"
  /\ mpc = "collect"
  /\ resultsChan = <<>> /\ resultsClosed
  /\ mpc' = "returned"
  /\ UNCHANGED <<argVars, ctxDone, poolVars, spc, sidx, cpc, results,
                 callVars, seqVars, invoked, pushed, atCancel, logVars, panicked>>

\* ---------------------------------------------- the sequential runners
\* ProcessSequential(jobs, processFunc) hands context.Background(), which
\* is never cancelled, to ProcessSequentialWithContext.  Here the sequential
\* runner is called on the same jobs (and token) once the parallel runner
\* has returned; the two calls share nothing else, so the order of the two
\* calls loses no behaviour of either.  extractSummaries calls
\* ProcessSequential instead of the parallel runner.
ProcessSequentialWithContext ==
  /\ Running
  /\ \/ runner \in ParallelRunners /\ mpc = "returned" /\ epc = "idle"
     \/ runner = "ProcessSequential"
  /\ seqpc = "idle"
  /\ seqpc' = "loop"
  /\ seqIdx' = 1
  /\ seqResults' = EmptyMap
  /\ UNCHANGED <<argVars, ctxDone, poolVars, runVars, callVars, seqJob,
                 seqOrder, invoked, pushed, atCancel, logVars, panicked>>
\* Mutant of SeqSelect: the loop body calls processFunc without looking at
\* the token.
SeqSelectNoCheck ==
  /\ Running
  /\ seqpc = "loop"
  /\ seqIdx <= Len(jobs)
  /\ seqpc' = "process"
  /\ seqJob' = jobs[seqIdx]
  /\ seqOrder' = Append(seqOrder, seqIdx)
  /\ UNCHANGED <<argVars, ctxDone, poolVars, runVars, callVars, seqIdx,
                 seqResults, invoked, pushed, atCancel, logVars, panicked>>

\* Mutant of SeqSelect: the loop walks the job list from its end.
SeqSelectBackwards ==
  /\ Running
  /\ seqpc = "loop"
  /\ seqIdx <= Len(jobs)
  /\ IF ctxDone
       THEN /\ seqpc' = "returned"
            /\ UNCHANGED <<seqJob, seqOrder>>
       ELSE /\ seqpc' = "process"
            /\ seqJob' = jobs[Len(jobs) + 1 - seqIdx]
            /\ seqOrder' = Append(seqOrder, Len(jobs) + 1 - seqIdx)
  /\ UNCHANGED <<argVars, ctxDone, poolVars, runVars, callVars, seqIdx,
                 seqResults, invoked, pushed, atCancel, logVars, panicked>>

\* One iteration's select: case <-ctx.Done(): return results; default:
\* processFunc(job) is entered.
SeqSelect ==
  /\ Running
  /\ seqpc = "loop"
  /\ seqIdx <= Len(jobs)
  /\ IF ctxDone
       THEN /\ seqpc' = "returned"
            /\ UNCHANGED <<seqJob, seqOrder>>
       ELSE /\ seqpc' = "process"
            /\ seqJob' = jobs[seqIdx]
            /\ seqOrder' = Append(seqOrder, seqIdx)
  /\ UNCHANGED <<argVars, ctxDone, poolVars, runVars, callVars, seqIdx,
                 seqResults, invoked, pushed, atCancel, logVars, panicked>>
\* Mutant of SeqProcess: an identity that already has an entry keeps it.
SeqProcessKeepsFirst ==
  /\ Running
  /\ seqpc = "process"
  /\ seqResults' = IF seqJob.FilePath \in DOMAIN seqResults
                     THEN seqResults
                     ELSE MapPut(seqResults, ProcessFunc(seqJob))
  /\ seqIdx' = seqIdx + 1
  /\ seqpc' = "loop"
  /\ UNCHANGED <<argVars, ctxDone, poolVars, runVars, callVars, seqJob,
                 seqOrder, invoked, pushed, atCancel, logVars, panicked>>

\* result := processFunc(job) returns; results[result.FilePath] = result
SeqProcess ==
  /\ Running
  /\ seqpc = "process"
  /\ seqResults' = MapPut(seqResults, ProcessFunc(seqJob))
  /\ seqIdx' = seqIdx + 1
  /\ seqpc' = "loop"
  /\ UNCHANGED <<argVars, ctxDone, poolVars, runVars, callVars, seqJob,
                 seqOrder, invoked, pushed, atCancel, logVars, panicked>>

\* the loop is over: return results
SeqReturn ==
  /\ Running
  /\ seqpc = "loop"
  /\ seqIdx > Len(jobs)
  /\ seqpc' = "returned"
  /\ UNCHANGED <<argVars, ctxDone, poolVars, runVars, callVars, seqIdx, seqJob,
                 seqResults, seqOrder, invoked, pushed, atCancel, logVars, panicked>>

\* ------------------------------------------------------ extractSummaries
Min(a, b) == IF a < b THEN a ELSE b

\* filepath.Rel(rootPath, filePath): the path of a scanned file below the
\* root it was found under.
Rel(filePath) == <<filePath>>

\* for filePath, result := range results : the entries without an error and
\* with a summary (the zero Result has the empty one), under their relative
\* paths
Convert(m) ==
  LET kept == { k \in DOMAIN m :
                  m[k].Error = "nil" /\ m[k].Summary # NoResult.Summary }
  IN [r \in { Rel(k) : k \in kept } |->
        m[CHOOSE k \in kept : Rel(k) = r].Summary]

\* Mutant of ExtractSummaries: the worker count is the number of CPUs.
ExtractSummariesNoMin ==
  /\ Running
  /\ epc = "call"
  /\ IF Len(jobs) = 0
       THEN /\ epc' = "returned"
            /\ summaries' = EmptyMap
            /\ UNCHANGED <<runner, workersArg>>
       ELSE /\ epc' = "run"
            /\ IF sequential
                 THEN /\ runner' = "ProcessSequential"
                      /\ UNCHANGED workersArg
                 ELSE /\ runner' = "ProcessAll"
                      /\ workersArg' = numCPU
            /\ UNCHANGED summaries
  /\ UNCHANGED <<jobs, processFunc, sequential, numCPU, ctxDone, poolVars,
                 runVars, callVars, seqVars, invoked, pushed, atCancel,
                 logVars, panicked>>

\* extractSummaries up to the call of a runner: an empty file list returns
\* an empty map at once; else ProcessSequential is called if `sequential`,
\* and ProcessAll with min(runtime.NumCPU(), len(files)) workers if not.
ExtractSummaries ==
  /\ Running
  /\ epc = "call"
  /\ IF Len(jobs) = 0
       THEN /\ epc' = "returned"
            /\ summaries' = EmptyMap
            /\ UNCHANGED <<runner, workersArg>>
       ELSE /\ epc' = "run"
            /\ IF sequential
                 THEN /\ runner' = "ProcessSequential"
                      /\ UNCHANGED workersArg
                 ELSE /\ runner' = "ProcessAll"
                      /\ workersArg' = Min(numCPU, Len(jobs))
            /\ UNCHANGED summaries
  /\ UNCHANGED <<jobs, processFunc, sequential, numCPU, ctxDone, poolVars,
                 runVars, callVars, seqVars, invoked, pushed, atCancel,
                 logVars, panicked>>

\* The runner has returned its map: extractSummaries converts and returns it.
ExtractReturn ==
  /\ Running
  /\ epc = "run"
  /\ \/ runner = "ProcessAll" /\ mpc = "returned"
        /\ summaries' = Convert(results)
     \/ runner = "ProcessSequential" /\ seqpc = "returned"
        /\ summaries' = Convert(seqResults)
  /\ epc' = "returned"
  /\ UNCHANGED <<runner, jobs, workersArg, processFunc, sequential, numCPU,
                 ctxDone, poolVars, runVars, callVars, seqVars, invoked,
                 pushed, atCancel, logVars, panicked>>

\* ----------------------------------------------------- a Pool used directly
\* A caller is a goroutine that makes one call on the pool; calls start in
\* any order and overlap freely.  Submit calls take the jobs of `jobs` in
\* order.  The goroutine that built the pool reads Results().  Callers
\* have no identity of their own, so `callers` is the bag of their states:
\* the call, where it stands, Start's loop counter, Submit's job, and
\* whether a Close call was the one to run the shutdown.
NewCaller(op, pc, job) ==
  [op |-> op, pc |-> pc, i |-> 0, job |-> job, ran |-> FALSE]
Callers == BagToSet(callers)
CallsMade == BagCardinality(callers)
CallerAt(c, op, pc) == c.op = op /\ c.pc = pc
Call(c) == callers (+) SetToBag({c})
Moved(c, d) == (callers (-) SetToBag({c})) (+) SetToBag({d})

\* pool := NewPool(workers, processFunc)
NewPool ==
  /\ Running
  /\ runner = "Pool"
  /\ mpc = "call"
  /\ workers' = Clamp(workersArg)
  /\ jobsChan' = <<>> /\ jobsClosed' = FALSE
  /\ resultsChan' = <<>> /\ resultsClosed' = FALSE
  /\ mpc' = "read"
  /\ UNCHANGED <<argVars, ctxDone, wg, wstate, closeOnce, spc,
                 sidx, cpc, results, callVars, seqVars, invoked, pushed,
                 atCancel, logVars, panicked>>

\* a goroutine calls pool.Start()
CallStart ==
  /\ Running
  /\ runner = "Pool"
  /\ mpc # "call"
  /\ CallsMade < MaxCalls
  /\ callers' = Call(NewCaller("Start", "spawn", NoJob))
  /\ lateStart' = (lateStart \/ \E c \in Callers : c.op = "Close")
  /\ UNCHANGED <<argVars, ctxDone, poolVars, runVars, seqVars, invoked,
                 pushed, atCancel, received, completed, lateSubmit, last,
                 panicked>>
\* Mutant of StartSpawn: the loop body starts two goroutines per iteration.
StartSpawnsTwo(c) ==
  /\ Running
  /\ CallerAt(c, "Start", "spawn")
  /\ c.i < SpawnCount(workers)
  /\ wg' = wg + 2
  /\ wstate' = wstate (+) [w \in {NewWorker("recv")} |-> 2]
  /\ callers' = Moved(c, [c EXCEPT !.i = @ + 1])
  /\ UNCHANGED <<argVars, ctxDone, workers, jobsChan, jobsClosed, resultsChan,
                 resultsClosed, closeOnce, runVars, seqVars, invoked, pushed,
                 atCancel, logVars, panicked>>

\* One iteration of Start's loop: p.wg.Add(1); go p.worker()
StartSpawn(c) ==
  /\ Running
  /\ CallerAt(c, "Start", "spawn")
  /\ c.i < SpawnCount(workers)
  /\ wg' = wg + 1
  /\ wstate' = wstate (+) SetToBag({NewWorker("recv")})
  /\ callers' = Moved(c, [c EXCEPT !.i = @ + 1])
  /\ UNCHANGED <<argVars, ctxDone, workers, jobsChan, jobsClosed, resultsChan,
                 resultsClosed, closeOnce, runVars, seqVars, invoked, pushed,
                 atCancel, logVars, panicked>>

\* Start's loop is over
StartReturn(c) ==
  /\ Running
  /\ CallerAt(c, "Start", "spawn")
  /\ c.i >= SpawnCount(workers)
  /\ callers' = Moved(c, [c EXCEPT !.pc = "returned"])
  /\ UNCHANGED <<argVars, ctxDone, poolVars, runVars, seqVars, invoked,
                 pushed, atCancel, logVars, panicked>>

\* a goroutine calls pool.Submit(job) with the next job
CallSubmit ==
  /\ Running
  /\ runner = "Pool"
  /\ mpc # "call"
  /\ CallsMade < MaxCalls
  /\ sidx <= Len(jobs)
  /\ callers' = Call(NewCaller("Submit", "send", jobs[sidx]))
  /\ sidx' = sidx + 1
  /\ lateSubmit' = (lateSubmit \/ \E c \in Callers : c.op = "Close")
  /\ UNCHANGED <<argVars, ctxDone, poolVars, spc, cpc, mpc, results, seqVars,
                 invoked, pushed, atCancel, received, completed, lateStart, last,
                 panicked>>
\* Mutant of SubmitSend: a non-blocking send that drops the job when the
\* queue is full.
SubmitSendOrDrop(c) ==
  /\ Running
  /\ CallerAt(c, "Submit", "send")
  /\ ~jobsClosed
  /\ jobsChan' = IF Len(jobsChan) < Capacity
                   THEN Append(jobsChan, c.job) ELSE jobsChan
  /\ callers' = Moved(c, [c EXCEPT !.pc = "returned"])
  /\ UNCHANGED <<argVars, ctxDone, workers, jobsClosed, resultsChan,
                 resultsClosed, wg, wstate, closeOnce,
                 runVars, seqVars, invoked, pushed, atCancel,
                 logVars, panicked>>

\* Submit: p.jobs <- job
SubmitSend(c) ==
  /\ Running
  /\ CallerAt(c, "Submit", "send")
  /\ IF jobsClosed
       THEN Crash("send on closed jobs channel")
       ELSE /\ Len(jobsChan) < Capacity
            /\ jobsChan' = Append(jobsChan, c.job)
            /\ callers' = Moved(c, [c EXCEPT !.pc = "returned"])
            /\ UNCHANGED <<argVars, ctxDone, workers, jobsClosed, resultsChan,
                           resultsClosed, wg, wstate, closeOnce,
                           runVars, seqVars, invoked, pushed, atCancel,
                           logVars, panicked>>

\* a goroutine calls pool.Close()
CallClose ==
  /\ Running
  /\ runner = "Pool"
  /\ mpc # "call"
  /\ CallsMade < MaxCalls
  /\ callers' = Call(NewCaller("Close", "once", NoJob))
  /\ lateStart' = (lateStart \/ \E c \in Callers : CallerAt(c, "Start", "spawn"))
  /\ lateSubmit' = (lateSubmit \/ \E c \in Callers : CallerAt(c, "Submit", "send"))
  /\ UNCHANGED <<argVars, ctxDone, poolVars, runVars, seqVars, invoked,
                 pushed, atCancel, received, completed, last, panicked>>
\* Mutant of OnceRuns: the guard only excludes overlapping runs and does not
\* remember that the function has run.
OnceRunsAgain(once) == once # "running"

\* sync.Once: the first caller of Do runs the function
OnceRuns(once) == once = "fresh"
\* ... and every other caller returns once that run has finished
OnceSkips(once) == once = "done"

\* p.closeOnce.Do(func() {...}) : this call is the one that runs it
CloseOnceDo(c) ==
  /\ Running
  /\ CallerAt(c, "Close", "once")
  /\ OnceRuns(closeOnce)
  /\ closeOnce' = "running"
  /\ callers' = Moved(c, [c EXCEPT !.pc = "close_jobs", !.ran = TRUE])
  /\ UNCHANGED <<argVars, ctxDone, workers, jobsChan, jobsClosed, resultsChan,
                 resultsClosed, wg, wstate, runVars, seqVars,
                 invoked, pushed, atCancel, logVars, panicked>>

\* p.closeOnce.Do(func() {...}) : the function has run; Do returns
CloseOnceSkip(c) ==
  /\ Running
  /\ CallerAt(c, "Close", "once")
  /\ OnceSkips(closeOnce)
  /\ callers' = Moved(c, [c EXCEPT !.pc = "returned"])
  /\ UNCHANGED <<argVars, ctxDone, poolVars, runVars, seqVars, invoked,
                 pushed, atCancel, logVars, panicked>>
\* Mutant of CloseJobs: the shutdown does not close the submission queue.
CloseJobsSkipped(c) ==
  /\ Running
  /\ CallerAt(c, "Close", "close_jobs")
  /\ callers' = Moved(c, [c EXCEPT !.pc = "wait"])
  /\ UNCHANGED <<argVars, ctxDone, poolVars, runVars, seqVars, invoked,
                 pushed, atCancel, logVars, panicked>>

\* close(p.jobs)
CloseJobs(c) ==
  /\ Running
  /\ CallerAt(c, "Close", "close_jobs")
  /\ IF jobsClosed
       THEN Crash("close of closed channel")
       ELSE /\ jobsClosed' = TRUE
            /\ callers' = Moved(c, [c EXCEPT !.pc = "wait"])
            /\ UNCHANGED <<argVars, ctxDone, workers, jobsChan, resultsChan,
                           resultsClosed, wg, wstate, closeOnce,
                           runVars, seqVars, invoked, pushed, atCancel,
                           logVars, panicked>>

\* p.wg.Wait()
CloseWait(c) ==
  /\ Running
  /\ CallerAt(c, "Close", "wait")
  /\ WaitReturns
  /\ callers' = Moved(c, [c EXCEPT !.pc = "close_results"])
  /\ UNCHANGED <<argVars, ctxDone, poolVars, runVars, seqVars, invoked,
                 pushed, atCancel, logVars, panicked>>

\* close(p.results); the function returns, and Do and Close with it
CloseResults(c) ==
  /\ Running
  /\ CallerAt(c, "Close", "close_results")
  /\ IF resultsClosed
       THEN Crash("close of closed channel")
       ELSE /\ resultsClosed' = TRUE
            /\ closeOnce' = "done"
            /\ callers' = Moved(c, [c EXCEPT !.pc = "returned"])
            /\ UNCHANGED <<argVars, ctxDone, workers, jobsChan, jobsClosed,
                           resultsChan, wg, wstate, runVars,
                           seqVars, invoked, pushed, atCancel, logVars, panicked>>

\* for r := range pool.Results() : the pool's user takes one result
ReadResult ==
  /\ Running
  /\ runner = "Pool"
  /\ mpc = "read"
  /\ resultsChan # <<>>
  /\ results' = MapPut(results, Head(resultsChan))
  /\ resultsChan' = Tail(resultsChan)
  /\ UNCHANGED <<argVars, ctxDone, workers, jobsChan, jobsClosed,
                 resultsClosed, wg, wstate, closeOnce, spc, sidx,
                 cpc, mpc, callVars, seqVars, invoked, pushed, atCancel,
                 logVars, panicked>>

\* ... and its loop ends on the closed, drained channel
ReadEnd ==
  /\ Running
  /\ runner = "Pool"
  /\ mpc = "read"
  /\ resultsChan = <<>> /\ resultsClosed
  /\ mpc' = "returned"
  /\ UNCHANGED <<argVars, ctxDone, poolVars, spc, sidx, cpc, results,
                 callVars, seqVars, invoked, pushed, atCancel, logVars, panicked>>

\* ------------------------------------------------------------------ Next
PoolStep ==
  \/ NewPool
  \/ CallStart
  \/ \E c \in Callers : StartSpawn(c)
  \/ \E c \in Callers : StartReturn(c)
  \/ CallSubmit
  \/ \E c \in Callers : SubmitSend(c)
  \/ CallClose
  \/ \E c \in Callers : CloseOnceDo(c)
  \/ \E c \in Callers : CloseOnceSkip(c)
  \/ \E c \in Callers : CloseJobs(c)
  \/ \E c \in Callers : CloseWait(c)
  \/ \E c \in Callers : CloseResults(c)
  \/ ReadResult
  \/ ReadEnd

WorkerStep ==
  \/ \E w \in Workers : WorkerRecv(w)
  \/ \E w \in Workers : WorkerExit(w)
  \/ \E w \in Workers : WorkerProcess(w)
  \/ \E w \in Workers : WorkerSend(w)

CtxWorkerStep ==
  \/ \E w \in Workers : CtxWorkerSeesDone(w)
  \/ \E w \in Workers : CtxWorkerDrain(w)
  \/ \E w \in Workers : CtxWorkerDrained(w)
  \/ \E w \in Workers : CtxWorkerRecv(w)
  \/ \E w \in Workers : CtxWorkerClosed(w)
  \/ \E w \in Workers : CtxWorkerRecheck(w)
  \/ \E w \in Workers : CtxWorkerProcess(w)
  \/ \E w \in Workers : CtxWorkerSend(w)
  \/ \E w \in Workers : CtxWorkerSendCancelled(w)

ProcessAllStep ==
  \/ ProcessAll
  \/ SubmitJob
  \/ SubmitDone
  \/ CloserWait
  \/ CloserClose
  \/ Collect
  \/ Return

CtxStep ==
  \/ ProcessAllWithContext
  \/ CtxSubmitJob
  \/ CtxSubmitCancelled
  \/ CtxSubmitDone
  \/ CtxCloserWait
  \/ CtxCloserClose
  \/ CtxCollect
  \/ CtxReturn

SeqStep ==
  \/ ProcessSequentialWithContext
  \/ SeqSelect
  \/ SeqProcess
  \/ SeqReturn

\* Every step the program itself can take.
Step ==
  \/ WorkerStep
  \/ CtxWorkerStep
  \/ PoolStep
  \/ ProcessAllStep
  \/ CtxStep
  \/ SeqStep

Next == Step \/ Cancel

Spec == Init /\ [][Next]_vars

\* ================================================================ claims
Distinct(js) ==
  \A i, j \in 1..Len(js) : i # j => js[i].FilePath # js[j].FilePath
JobIds == { jobs[i].FilePath : i \in 1..Len(jobs) }
AllExited == \A w \in Workers : w.pc = "exited"
Returned == mpc = "returned"

\* C1: ProcessAll on N jobs with pairwise distinct identities and any worker
\* count returns a map with exactly N entries, one per job, keyed by the job
\* identity and holding the Result processFunc returned for that job.
C1_ProcessAllReturnsEveryResult ==
  (runner = "ProcessAll" /\ Returned /\ Distinct(jobs)) =>
     /\ DOMAIN results = JobIds
     /\ Cardinality(DOMAIN results) = Len(jobs)
     /\ \A i \in 1..Len(jobs) : results[jobs[i].FilePath] = ProcessFunc(jobs[i])

C1_Witness ==
  /\ runner = "ProcessAll" /\ Returned /\ Distinct(jobs)
  /\ Len(jobs) = 3 /\ workers = 2
  /\ Cardinality(DOMAIN results) = 3

\* C2: for unique identities and 1 <= W <= N, the map ProcessAll returns
\* equals the map ProcessSequential returns on the same jobs (same keys, same
\* values), whatever the interleaving of the workers.
C2_ParallelEqualsSequential ==
  (/\ runner = "ProcessAll" /\ Returned /\ seqpc = "returned"
   /\ Distinct(jobs)
   /\ 1 <= workersArg /\ workersArg <= Len(jobs)) =>
     /\ DOMAIN results = DOMAIN seqResults
     /\ \A k \in DOMAIN results : results[k] = seqResults[k]

C2_Witness ==
  /\ runner = "ProcessAll" /\ Returned /\ seqpc = "returned"
  /\ Distinct(jobs) /\ Len(jobs) = 3 /\ workersArg = 2
  /\ Cardinality(DOMAIN seqResults) = 3
  /\ results = seqResults

\* C3: in ProcessAll and ProcessAllWithContext called with worker count W
\* (clamped to at least 1), never more than W processFunc invocations are
\* executing at the same time.
C3_ConcurrencyBound ==
  runner \in ParallelRunners => Executing <= Clamp(workersArg)

C3_Witness ==
  /\ runner \in ParallelRunners
  /\ workersArg = 2
  /\ Executing = 2

\* The number of Close calls that ran the shutdown sequence.
RECURSIVE CallersIn(_)
CallersIn(S) ==
  IF S = {} THEN 0
  ELSE LET c == CHOOSE x \in S : TRUE
       IN CopiesIn(c, callers) + CallersIn(S \ {c})
ShutdownsRun == CallersIn({ c \in Callers : c.op = "Close" /\ c.ran })

\* C4: Pool.Close is idempotent: over all Close calls on a pool, sequential
\* or overlapping, the shutdown sequence runs exactly once, no queue is
\* closed twice (which would raise), and a Close call that returns finds the
\* shutdown complete.
C4_CloseIdempotent ==
  runner = "Pool" =>
     /\ ShutdownsRun <= 1
     /\ panicked # "close of closed channel"
     /\ (closeOnce = "fresh") = (ShutdownsRun = 0)
     /\ \A c \in Callers :
          CallerAt(c, "Close", "returned") =>
             /\ ShutdownsRun = 1
             /\ closeOnce = "done" /\ jobsClosed /\ resultsClosed

C4_Witness ==
  /\ runner = "Pool"
  /\ \E c \in Callers : CallerAt(c, "Close", "returned") /\ c.ran
  /\ \E c \in Callers : CallerAt(c, "Close", "returned") /\ ~c.ran
  /\ \E c \in Callers : CallerAt(c, "Start", "returned")

\* C5 as stated: in Pool.Close, ProcessAll and ProcessAllWithContext the
\* result queue is closed only after every worker has exited, and no worker
\* ever pushes a Result onto a closed result queue.
C5_Original ==
  /\ resultsClosed => AllExited
  /\ panicked # "send on closed results channel"

\* C5 as amended: the same, for ProcessAll and ProcessAllWithContext always
\* and for Pool.Close provided every Start call on the pool had returned
\* before Close was first called (Close waits only for the workers that
\* Start has registered so far).
C5_ResultsClosedAfterWorkers ==
  (runner \in ParallelRunners \/ ~lateStart) =>
     /\ resultsClosed => (AllExited /\ wg = 0)
     /\ panicked # "send on closed results channel"

C5_Witness ==
  /\ runner = "Pool" /\ ~lateStart
  /\ resultsClosed /\ AllExited
  /\ Workers # {}
  /\ Total(pushed) >= 2

\* ------------------------------------------- one runner under fair scheduling
\* The Go scheduler runs every goroutine that can take a step; the token's
\* cancellation is an event of the environment and need never happen.
InitProcessAll == Init /\ runner = "ProcessAll"
NextProcessAll == WorkerStep \/ ProcessAllStep \/ SeqStep
FairProcessAll ==
  /\ InitProcessAll
  /\ [][NextProcessAll]_vars
  /\ WF_vars(WorkerStep \/ ProcessAllStep)

InitWithContext == Init /\ runner = "ProcessAllWithContext"
NextWithContext == CtxWorkerStep \/ CtxStep \/ SeqStep \/ Cancel
FairWithContext ==
  /\ InitWithContext
  /\ [][NextWithContext]_vars
  /\ WF_vars(CtxWorkerStep \/ CtxStep)

\* C6: ProcessAll returns for every job count and worker count, also when
\* the jobs outnumber the capacity of both queues: no state short of the
\* return leaves every goroutine blocked.
C6_ProcessAllTerminates == <>(Returned /\ (Len(jobs) > 0 => AllExited))

C6_Witness ==
  /\ runner = "ProcessAll" /\ Returned
  /\ Len(jobs) > Capacity /\ workers = 1
  /\ Total(pushed) = Len(jobs)

\* C7: ProcessAllWithContext returns whenever the token is cancelled (before
\* the call, during it, or never): every worker, the submission goroutine and
\* the goroutine that closes the result queue end, and the call returns.
C7_WithContextTerminates ==
  <>(/\ Returned
     /\ Len(jobs) > 0 => (AllExited /\ wg = 0 /\ spc = "done" /\ cpc = "done"))

C7_Witness ==
  /\ runner = "ProcessAllWithContext" /\ Returned
  /\ AllExited /\ spc = "done" /\ cpc = "done"
  /\ atCancel.cancelled
  /\ atCancel.invoked > atCancel.completed
  /\ sidx <= Len(jobs)

WorkersDone == runner = "ProcessAllWithContext" /\ mpc # "call" /\ wg = 0
HeldForRecheck(i) == \E w \in WorkersAt("recheck") : w.job.Data = i

\* C9 as stated: a job that a worker has taken off the submission queue is
\* always passed to processFunc and runs to completion, also when the token
\* is cancelled after the dequeue.
C9_Original ==
  WorkersDone =>
     \A i \in 1..Len(jobs) :
        invoked[i] = received[i] /\ completed[i] = received[i]

\* C9 as amended: a job that a worker has taken off the submission queue is
\* passed to processFunc unless the worker's second look at the token, made
\* after the dequeue, finds it cancelled (the job is then dropped); a job
\* that was passed to processFunc runs to completion, also when the token is
\* cancelled during the invocation.
C9_DequeuedJobRunsUnlessCancelled ==
  runner = "ProcessAllWithContext" =>
     /\ \A i \in 1..Len(jobs) :
          /\ completed[i] <= invoked[i] /\ invoked[i] <= received[i]
          /\ received[i] <= 1
          /\ received[i] > invoked[i] => (ctxDone \/ HeldForRecheck(i))
     /\ WorkersDone => \A i \in 1..Len(jobs) : completed[i] = invoked[i]

C9_Witness ==
  /\ WorkersDone /\ Len(jobs) > 0
  /\ atCancel.invoked > atCancel.completed
  /\ Total(completed) = atCancel.invoked
  /\ Total(received) > Total(invoked)

\* C10 as stated: every processFunc invocation that was started yields
\* exactly one Result, which is pushed on the result queue and collected into
\* the returned map, also when the token is cancelled meanwhile.
Collected(i) ==
  /\ jobs[i].FilePath \in DOMAIN results
  /\ Distinct(jobs) => results[jobs[i].FilePath] = ProcessFunc(jobs[i])
C10_Original ==
  (runner = "ProcessAllWithContext" /\ Returned) =>
     \A i \in 1..Len(jobs) :
        /\ completed[i] = invoked[i]
        /\ pushed[i] = invoked[i]
        /\ invoked[i] > 0 => Collected(i)

\* C10 as amended: every processFunc invocation that was started yields
\* exactly one Result; the Result is pushed at most once, and a pushed Result
\* is collected into the returned map; a Result is left unpushed (dropped)
\* only if the token is cancelled by the time the worker pushes.
C10_StartedJobYieldsOneResult ==
  runner = "ProcessAllWithContext" =>
     /\ \A i \in 1..Len(jobs) : pushed[i] <= completed[i] /\ invoked[i] <= 1
     /\ Returned =>
          \A i \in 1..Len(jobs) :
             /\ completed[i] = invoked[i]
             /\ pushed[i] > 0 => Collected(i)
             /\ pushed[i] < invoked[i] => ctxDone

C10_Witness ==
  /\ runner = "ProcessAllWithContext" /\ Returned
  /\ \E i \in 1..Len(jobs) : invoked[i] = 1 /\ pushed[i] = 0
  /\ \E i \in 1..Len(jobs) : pushed[i] = 1 /\ Collected(i)
  /\ atCancel.invoked > atCancel.completed

\* The jobs the submission goroutine has not handed to the queue.
Unsent == sidx..Len(jobs)
SubmitterStopped == spc = "done" /\ sidx <= Len(jobs)
C11_UnsentNeverRuns ==
  runner = "ProcessAllWithContext" =>
     /\ \A k \in 1..Len(jobsChan) : jobsChan[k].Data \notin Unsent
     /\ \A k \in 1..Len(resultsChan) : resultsChan[k].Summary \notin Unsent
     /\ \A i \in Unsent : received[i] = 0 /\ invoked[i] = 0 /\ pushed[i] = 0
     /\ \A k \in DOMAIN results : results[k].Summary \notin Unsent
     /\ SubmitterStopped => (ctxDone /\ jobsClosed)
C11_StoppedForGood ==
  (runner = "ProcessAllWithContext" /\ spc = "done") =>
     /\ spc' = "done" /\ sidx' = sidx /\ jobsClosed'
     /\ jobsChan' = jobsChan \/ (jobsChan # <<>> /\ jobsChan' = Tail(jobsChan))

\* C11: in ProcessAllWithContext, once the submission goroutine takes the
\* cancellation case it enqueues no further job and returns, closing the
\* submission queue; a job it had not enqueued is never received, never
\* executed and never appears in the returned map.
C11_SubmitterStopsOnCancel ==
  [](C11_UnsentNeverRuns) /\ [][C11_StoppedForGood]_vars

C11_Witness ==
  /\ runner = "ProcessAllWithContext" /\ Returned
  /\ SubmitterStopped /\ sidx = 2 /\ Len(jobs) = 3
  /\ Cardinality(DOMAIN results) = 1

\* The worker goroutines of a bag that stand at a given place.
AtPc(bag, pc) ==
  BagCardinality([w \in { x \in BagToSet(bag) : x.pc = pc } |-> bag[w]])
Left(pc) == wstate' # wstate /\ AtPc(wstate', pc) < AtPc(wstate, pc)
WorkerExits ==
  /\ wstate' # wstate
  /\ CopiesIn(NewWorker("exited"), wstate') >
       CopiesIn(NewWorker("exited"), wstate)

\* C12 as stated: a worker of ProcessAllWithContext that exits because of
\* cancellation has first drained the submission queue until it was closed,
\* on every cancellation exit path; as a worker that exits without
\* cancellation also leaves a closed and empty queue behind, the queue is
\* closed and empty whenever a worker has exited.
C12_Original ==
  (runner = "ProcessAllWithContext" /\ \E w \in Workers : w.pc = "exited") =>
     (jobsClosed /\ jobsChan = <<>>)

\* C12 as amended: a worker that takes the cancellation case of its outer
\* select drains the submission queue until it is closed and empty, and every
\* job it discards is never passed to processFunc; a worker that finds the
\* token cancelled at the re-check after a dequeue, or while it pushes its
\* Result, returns at once without draining, so jobs may remain queued.
C12_DrainStep ==
  (runner = "ProcessAllWithContext" /\ wstate' = wstate
   /\ jobsChan # <<>> /\ jobsChan' = Tail(jobsChan)) =>
     /\ AtPc(wstate, "drain") > 0 /\ ctxDone
     /\ UNCHANGED <<received, invoked, completed, pushed>>
C12_ExitStep ==
  (runner = "ProcessAllWithContext" /\ WorkerExits) =>
     \/ (Left("drain") \/ Left("select")) /\ jobsClosed /\ jobsChan = <<>>
     \/ (Left("recheck") \/ Left("send")) /\ ctxDone
C12_DrainOnly ==
  (runner = "ProcessAllWithContext" /\ Left("drain")) => WorkerExits
C12_OuterCancellationDrains ==
  [][C12_DrainStep /\ C12_ExitStep /\ C12_DrainOnly]_vars

C12_Witness ==
  /\ runner = "ProcessAllWithContext" /\ Returned /\ AllExited
  /\ jobsChan = <<>>
  /\ \E i \in 1..Len(jobs) : i \notin Unsent /\ received[i] = 0
  /\ \E i \in 1..Len(jobs) : received[i] = 1 /\ invoked[i] = 0

\* The map a loop over the first k jobs builds: a later job with the same
\* identity replaces an earlier one.
RECURSIVE SeqMapOf(_)
SeqMapOf(k) ==
  IF k = 0 THEN EmptyMap ELSE MapPut(SeqMapOf(k - 1), ProcessFunc(jobs[k]))
SeqStarted == Len(seqOrder)

C13_SeqState ==
  runner = "ProcessAllWithContext" =>
     /\ \A i \in 1..SeqStarted : seqOrder[i] = i
     /\ seqpc = "returned" =>
          /\ seqResults = SeqMapOf(SeqStarted)
          /\ SeqStarted < Len(jobs) => ctxDone
          /\ atCancel.running > 0 =>
               /\ SeqStarted = atCancel.running
               /\ seqResults = SeqMapOf(atCancel.running)
          /\ Distinct(jobs) =>
               /\ Cardinality(DOMAIN seqResults) = SeqStarted
               /\ SeqStarted <= Len(jobs)
C13_SeqStep ==
  runner = "ProcessAllWithContext" =>
     /\ Len(seqOrder') > SeqStarted => (~ctxDone /\ seqpc = "loop")
     /\ (seqpc = "loop" /\ seqIdx <= Len(jobs) /\ ctxDone /\ seqpc' # seqpc) =>
          (seqpc' = "returned" /\ UNCHANGED <<seqResults, seqOrder>>)
     /\ (seqpc = "process" /\ seqpc' # seqpc) =>
          /\ seqpc' = "loop"
          /\ seqResults' = MapPut(seqResults, ProcessFunc(jobs[seqIdx]))

\* C13: ProcessSequentialWithContext looks at the token once per iteration,
\* before it starts the job: if the token is cancelled while the k-th job is
\* executing, that job completes and is recorded, no later job is executed,
\* and the returned map is the one built from the first k jobs (for unique
\* identities its size is the number of started jobs, at most N).
C13_SequentialCancellation == [](C13_SeqState) /\ [][C13_SeqStep]_vars

C13_Witness ==
  /\ runner = "ProcessAllWithContext" /\ seqpc = "returned"
  /\ Distinct(jobs) /\ Len(jobs) = 3
  /\ atCancel.running = 2
  /\ Cardinality(DOMAIN seqResults) = 2

\* C14: ProcessSequential (the token is never cancelled) invokes processFunc
\* on the jobs one at a time in job-list order: the i-th invocation is on the
\* i-th job, it starts only after the results of the i-1 jobs before it have
\* been stored, and the map is assembled in that order (of two jobs with one
\* identity the later one stays).
C14_SequentialInOrder ==
  runner = "ProcessAll" =>
     /\ \A i \in 1..SeqStarted : seqOrder[i] = i
     /\ seqpc = "process" =>
          /\ seqIdx = SeqStarted /\ seqJob = jobs[seqIdx]
          /\ seqResults = SeqMapOf(seqIdx - 1)
     /\ seqpc = "loop" =>
          /\ seqIdx = SeqStarted + 1
          /\ seqResults = SeqMapOf(SeqStarted)
     /\ seqpc = "returned" =>
          /\ SeqStarted = Len(jobs)
          /\ seqResults = SeqMapOf(Len(jobs))

C14_Witness ==
  /\ runner = "ProcessAll" /\ seqpc = "returned"
  /\ Len(jobs) = 3
  /\ jobs[1].FilePath = jobs[3].FilePath
  /\ jobs[1].FilePath # jobs[2].FilePath
  /\ seqResults[jobs[1].FilePath] = ProcessFunc(jobs[3])

\* C15: with an empty job list ProcessAll, ProcessAllWithContext and
\* ProcessSequential return an empty map at once: no pool or queue is built,
\* no goroutine is started and processFunc is never invoked.
C15_EmptyJobList ==
  (runner \in ParallelRunners /\ Len(jobs) = 0) =>
     /\ mpc \in {"call", "returned"}
     /\ workers = 0 /\ wstate = EmptyBag /\ wg = 0
     /\ spc = "idle" /\ cpc = "idle"
     /\ jobsChan = <<>> /\ resultsChan = <<>>
     /\ results = EmptyMap
     /\ seqpc \in {"idle", "loop", "returned"}
     /\ seqOrder = <<>> /\ seqResults = EmptyMap
     /\ panicked = "none"

C15_Witness ==
  /\ runner = "ProcessAll" /\ Len(jobs) = 0 /\ workersArg = 2
  /\ Returned /\ results = EmptyMap
  /\ seqpc = "returned" /\ seqResults = EmptyMap

\* What a job's Result says about its failure.
Reported(m, i) ==
  /\ jobs[i].FilePath \in DOMAIN m
  /\ m[jobs[i].FilePath].Error = (IF Fails(jobs[i]) THEN "err" ELSE "nil")
EveryJobRan ==
  \A i \in 1..Len(jobs) :
     /\ invoked[i] = 1 /\ completed[i] = 1 /\ pushed[i] = 1
     /\ Distinct(jobs) => Reported(results, i)
C16_Outcome ==
  /\ runner \in ParallelRunners => panicked = "none"
  /\ (runner = "ProcessAll" /\ Returned) => EveryJobRan
  /\ (runner = "ProcessAllWithContext" /\ Returned /\ ~ctxDone) => EveryJobRan
  /\ (seqpc = "returned" /\ ~ctxDone) =>
        /\ SeqStarted = Len(jobs)
        /\ Distinct(jobs) => \A i \in 1..Len(jobs) : Reported(seqResults, i)
  /\ \A w \in WorkersAt("send") : w.result = ProcessFunc(w.job)
C16_WorkerGoesOn ==
  (WorkerExits /\ ~ctxDone) => (jobsClosed /\ jobsChan = <<>>)

CloseCalledLast == ~lateStart /\ ~lateSubmit
NoSendOnClosedQueue ==
  /\ \A c \in Callers : CallerAt(c, "Submit", "send") => ~jobsClosed
  /\ (runner \in ParallelRunners /\ spc = "submit" /\ sidx <= Len(jobs)) =>
        ~jobsClosed

\* C17 as stated: for every sequence and interleaving of Start, Submit and
\* Close calls on a Pool, no Submit sends on a closed submission queue and no
\* runtime error is raised.
C17_Original ==
  runner = "Pool" => (panicked = "none" /\ NoSendOnClosedQueue)

\* C17 as amended: in ProcessAll and ProcessAllWithContext no send on a
\* closed submission queue and no runtime error is reachable; on a Pool used
\* directly the same holds provided every Start and Submit call has returned
\* before Close is first called (Submit has no guard of its own: a Submit
\* that follows or overlaps Close sends on the closed queue and panics).
C17_NoPanicWhenCloseIsLast ==
  (runner \in ParallelRunners \/ CloseCalledLast) =>
     (panicked = "none" /\ NoSendOnClosedQueue)

C17_Witness ==
  /\ runner = "Pool" /\ CloseCalledLast /\ panicked = "none"
  /\ \E c \in Callers : CallerAt(c, "Submit", "returned")
  /\ \E c \in Callers : CallerAt(c, "Start", "returned")
  /\ \E c \in Callers : CallerAt(c, "Close", "returned")
  /\ Total(pushed) = 1 /\ mpc = "returned"

\* The lifecycle of a Pool: 0 Created, 1 Started, 2 ShuttingDown, 3 Closed.
Phase(once, ws) ==
  IF once = "done" THEN 3
  ELSE IF once = "running" THEN 2
  ELSE IF ws # EmptyBag THEN 1
  ELSE 0
Accepts == Len(jobsChan') > Len(jobsChan)
Emits == Len(resultsChan') > Len(resultsChan)
C18_ClosedIsFinal ==
  Phase(closeOnce, wstate) = 3 =>
     (Phase(closeOnce', wstate') = 3 /\ ~Accepts /\ ~Emits)

\* C18 as stated: a Pool moves Created -> Started -> ShuttingDown -> Closed,
\* accepts a submission only while it is Started, and enters Closed exactly
\* once, after which no job is accepted and no Result is emitted.
C18_OriginalStep ==
  runner = "Pool" =>
     /\ Phase(closeOnce', wstate') \in
          {Phase(closeOnce, wstate), Phase(closeOnce, wstate) + 1}
     /\ Accepts => Phase(closeOnce, wstate) = 1
     /\ C18_ClosedIsFinal
C18_Original == [][C18_OriginalStep]_vars

\* C18 as amended: a Pool moves Created -> Started -> ShuttingDown -> Closed,
\* where the first Close may also find it Created; it accepts a submission
\* from its creation (before Start the job is buffered) until Close has
\* closed the submission queue; it enters Closed exactly once and stays
\* there, and then no job is accepted and no Result is emitted.
C18_Step ==
  runner = "Pool" =>
     /\ \/ Phase(closeOnce', wstate') \in
             {Phase(closeOnce, wstate), Phase(closeOnce, wstate) + 1}
        \/ Phase(closeOnce, wstate) = 0 /\ Phase(closeOnce', wstate') = 2
     /\ Accepts => (~jobsClosed /\ Phase(closeOnce, wstate) < 3)
     /\ C18_ClosedIsFinal
C18_Lifecycle == [][C18_Step]_vars

C18_Witness ==
  /\ runner = "Pool" /\ Phase(closeOnce, wstate) = 3
  /\ Workers # {} /\ AllExited
  /\ jobsClosed /\ resultsClosed
  /\ sidx = 3 /\ Total(pushed) = 2
  /\ \E c \in Callers : CallerAt(c, "Close", "returned") /\ c.ran

Accepted == 1..(sidx - 1)
CloseReturned == \E c \in Callers : CallerAt(c, "Close", "returned")
ExecutedOnce ==
  /\ \A i \in Accepted : invoked[i] = 1 /\ completed[i] = 1 /\ pushed[i] = 1
  /\ jobsChan = <<>> /\ resultsClosed /\ panicked = "none"

\* C19 as stated: when the first Pool.Close call returns, every job that
\* Submit accepted before Close has been executed exactly once and its Result
\* was pushed onto the result queue before that queue was closed.
C19_Original ==
  (runner = "Pool" /\ ~lateSubmit /\ CloseReturned) => ExecutedOnce

\* C19 as amended: the same, provided a Start call on the pool had returned
\* before Close was first called and none overlapped or followed it (an
\* unstarted pool has no worker, and Close returns with the accepted jobs
\* still queued); workers exit only when the submission queue is closed and
\* empty, so jobs still buffered at close time are not lost.
C19_State ==
  (/\ runner = "Pool" /\ CloseCalledLast
   /\ \E c \in Callers : c.op = "Start"
   /\ CloseReturned) => (ExecutedOnce /\ AllExited)
C19_ExitStep ==
  (runner = "Pool" /\ WorkerExits) => (jobsClosed /\ jobsChan = <<>>)
C19_CloseRunsAcceptedJobs == [](C19_State) /\ [][C19_ExitStep]_vars

C19_Witness ==
  /\ runner = "Pool" /\ CloseCalledLast /\ CloseReturned
  /\ \E c \in Callers : CallerAt(c, "Start", "returned")
  /\ workers = 1 /\ sidx = 3
  /\ Total(pushed) = 2 /\ AllExited

\* A Submit call that waits at a full queue.
Blocked(c) == CallerAt(c, "Submit", "send") /\ Len(jobsChan) = 2 * workers
C20_Bound ==
  workers # 0 => Len(jobsChan) <= 2 * Clamp(workersArg)
C20_Step ==
  /\ callers' # callers =>
       \A c \in Callers :
          /\ Blocked(c) => CopiesIn(c, callers') >= CopiesIn(c, callers)
          /\ (CallerAt(c, "Submit", "send")
              /\ CopiesIn(c, callers') < CopiesIn(c, callers)) =>
                jobsChan' = Append(jobsChan, c.job)
  /\ (runner = "ProcessAll" /\ sidx' # sidx) =>
       (Len(jobsChan) < 2 * workers /\ jobsChan' = Append(jobsChan, jobs[sidx]))
  /\ (runner \in {"ProcessAll", "Pool"} /\ Len(jobsChan') < Len(jobsChan)) =>
       (jobsChan' = Tail(jobsChan) /\ WorkersAt("recv") # {})

\* C20: the submission queue of a pool with worker count W never holds more
\* than 2*W jobs; a Submit issued while it holds 2*W jobs neither drops the
\* job nor buffers it elsewhere: it blocks until a worker has taken a job off
\* the queue, and then appends its job.
C20_Backpressure == [](C20_Bound) /\ [][C20_Step]_vars

C20_Witness ==
  /\ runner = "Pool" /\ workers = 1 /\ Len(jobsChan) = 2
  /\ \E c \in Callers : Blocked(c)
  /\ \E c \in Callers : CallerAt(c, "Submit", "returned")

\* A parallel runner has returned and the token was never cancelled.
ReturnedUncancelled ==
  runner \in ParallelRunners /\ Returned /\ ~ctxDone /\ Len(jobs) > 0
OneEntryPerIdentity ==
  /\ DOMAIN results = JobIds
  /\ Cardinality(DOMAIN results) = Cardinality(JobIds)

\* C21 as stated: when several jobs of one batch share an identity, the
\* returned map holds exactly one entry for that identity, and in the
\* parallel runner that entry is the Result of the job whose invocation
\* completed last among them.
C21_Original ==
  ReturnedUncancelled =>
     /\ OneEntryPerIdentity
     /\ \A k \in JobIds : results[k] = ProcessFunc(jobs[last.done[k]])

\* C21 as amended: the returned map holds exactly one entry for that
\* identity, and in the parallel runner that entry is the Result that was
\* pushed onto the result queue last among them; a job whose invocation
\* completed earlier may push its Result later, and then its Result stays.
C21_LastPushedStays ==
  ReturnedUncancelled =>
     /\ OneEntryPerIdentity
     /\ \A k \in JobIds : results[k] = ProcessFunc(jobs[last.pushed[k]])

C21_Witness ==
  /\ ReturnedUncancelled /\ runner = "ProcessAll"
  /\ Len(jobs) = 3 /\ Cardinality(JobIds) = 2
  /\ \E k \in JobIds :
       /\ last.done[k] # last.pushed[k]
       /\ results[k] = ProcessFunc(jobs[last.pushed[k]])

\* A runner's call has returned its map.
ParallelReturned == runner \in ParallelRunners /\ Returned
SequentialReturned == seqpc = "returned"
SizeAndKeys(m) ==
  /\ Cardinality(DOMAIN m) <= Len(jobs)
  /\ DOMAIN m \subseteq JobIds

\* C22: for every runner, every job list and every cancellation timing, the
\* returned map has between 0 and len(jobs) entries, and every key in it is
\* the identity of some job of the input list.
C22_MapSizeAndKeys ==
  /\ ParallelReturned => SizeAndKeys(results)
  /\ SequentialReturned => SizeAndKeys(seqResults)

C22_Witness ==
  /\ runner = "ProcessAllWithContext" /\ Returned /\ SequentialReturned
  /\ Len(jobs) = 3 /\ Cardinality(JobIds) = 2
  /\ atCancel.cancelled /\ atCancel.running = 1
  /\ Cardinality(DOMAIN results) = 2
  /\ Cardinality(DOMAIN seqResults) = 1

\* Every Result of a map is the value processFunc returned for a job.
FromProcessFunc(m) ==
  \A k \in DOMAIN m : \E i \in 1..Len(jobs) : m[k] = ProcessFunc(jobs[i])

\* C23: cancellation is never reported through a Result: every Result in a
\* map returned by a cancellable runner (and every Result on its way there)
\* is exactly the value processFunc returned for one of the input jobs; the
\* engine makes no Result of its own and changes no error field, so a
\* cancellation shows only as missing entries.
C23_ResultsUntouched ==
  runner = "ProcessAllWithContext" =>
     /\ FromProcessFunc(results)
     /\ FromProcessFunc(seqResults)
     /\ \A n \in 1..Len(resultsChan) :
          \E i \in 1..Len(jobs) : resultsChan[n] = ProcessFunc(jobs[i])
     /\ \A w \in WorkersAt("send") : w.result = ProcessFunc(w.job)

C23_Witness ==
  /\ runner = "ProcessAllWithContext" /\ Returned /\ SequentialReturned
  /\ Distinct(jobs) /\ Len(jobs) = 3
  /\ atCancel.cancelled /\ atCancel.invoked = 3 /\ atCancel.pushed = 1
  /\ DOMAIN results = {jobs[2].FilePath}
  /\ results[jobs[2].FilePath].Error = "err"

\* The steps of the goroutines of a batch runner.
RunnerStep == WorkerStep \/ CtxWorkerStep \/ ProcessAllStep \/ CtxStep

\* The pool (or the runner's channels and workers) has been constructed.
PoolBuilt == mpc # "call" /\ (runner \in ParallelRunners => Len(jobs) > 0)

\* C24: the worker count is clamped to at least 1: with a worker count <= 0
\* NewPool and ProcessAllWithContext run with exactly one worker and queue
\* capacities of 2, and ProcessAll and ProcessAllWithContext still process
\* every job and return: short of the return some goroutine can always take
\* a step (no deadlock from zero workers or zero-capacity queues), and with
\* the token never cancelled every job has been run and collected.
C24_ClampedToOneWorker ==
  (workersArg <= 0 /\ PoolBuilt) =>
     /\ workers = 1 /\ Capacity = 2
     /\ Len(jobsChan) <= 2 /\ Len(resultsChan) <= 2
     /\ runner \in ParallelRunners =>
          /\ BagCardinality(wstate) = 1
          /\ ~Returned => ENABLED RunnerStep
          /\ (Returned /\ ~ctxDone) =>
               \A i \in 1..Len(jobs) : pushed[i] = 1 /\ Collected(i)

C24_Witness ==
  /\ runner \in ParallelRunners /\ workersArg = 0
  /\ Returned /\ ~ctxDone
  /\ Len(jobs) = 3 /\ Total(pushed) = 3
  /\ BagCardinality(wstate) = 1

\* The Start calls made on the pool, and the workers they have spawned.
StartCalls == CallersIn({ c \in Callers : c.op = "Start" })
RECURSIVE SpawnedBy(_)
SpawnedBy(S) ==
  IF S = {} THEN 0
  ELSE LET c == CHOOSE x \in S : TRUE
       IN c.i * CopiesIn(c, callers) + SpawnedBy(S \ {c})

\* C25 as stated: for a Pool driven through any sequence of Start, Submit
\* and Close calls, Start spawns exactly workerCount workers and the number
\* of processFunc invocations executing concurrently on that pool never
\* exceeds workerCount.
C25_Original ==
  (runner = "Pool" /\ mpc # "call") =>
     /\ \A c \in Callers : CallerAt(c, "Start", "returned") => c.i = workers
     /\ Executing <= workers

\* C25 as amended: each Start call spawns exactly workerCount workers, and
\* the number of processFunc invocations executing concurrently on the pool
\* never exceeds workerCount times the number of Start calls made (Start has
\* no guard against a second call); it never exceeds workerCount on a pool
\* whose Start is called once.
C25_WorkersPerStart ==
  (runner = "Pool" /\ mpc # "call") =>
     /\ \A c \in Callers :
          /\ c.op = "Start" => c.i <= workers
          /\ CallerAt(c, "Start", "returned") => c.i = workers
     /\ BagCardinality(wstate) =
          SpawnedBy({ c \in Callers : c.op = "Start" })
     /\ Executing <= BagCardinality(wstate)
     /\ Executing <= workers * StartCalls

C25_Witness ==
  /\ runner = "Pool" /\ workers = 2 /\ StartCalls = 1
  /\ \E c \in Callers : CallerAt(c, "Start", "returned")
  /\ Executing = 2

\* The places of the submission queue that hold job i.
InQueue(i) == Cardinality({ n \in 1..Len(jobsChan) : jobsChan[n].Data = i })

\* C26: in ProcessAll, for every job list and worker count, each job of the
\* list is dequeued by exactly one worker and processFunc is invoked exactly
\* once on it: a submitted job is in the queue or with one worker, never
\* both and never twice, and at the return every job has been dequeued, run
\* and pushed once; this holds also when identities repeat.
C26_EachJobOnce ==
  runner = "ProcessAll" =>
     /\ \A i \in 1..Len(jobs) :
          /\ InQueue(i) + received[i] = (IF i < sidx THEN 1 ELSE 0)
          /\ invoked[i] = received[i]
          /\ pushed[i] <= completed[i] /\ completed[i] <= invoked[i]
     /\ Returned =>
          \A i \in 1..Len(jobs) :
             received[i] = 1 /\ completed[i] = 1 /\ pushed[i] = 1

C26_Witness ==
  /\ runner = "ProcessAll" /\ Returned
  /\ Len(jobs) = 3 /\ Cardinality(JobIds) = 1 /\ workers = 2
  /\ Total(received) = 3 /\ Total(pushed) = 3
  /\ Cardinality(DOMAIN results) = 1

C27_State ==
  runner = "ProcessAllWithContext" =>
     /\ atCancel.cancelled => Total(invoked) = atCancel.invoked
     /\ \A i \in 1..Len(jobs) : invoked[i] <= received[i]
C27_Step ==
  runner = "ProcessAllWithContext" =>
     /\ received' # received =>
          AtPc(wstate', "recheck") > AtPc(wstate, "recheck")
     /\ invoked' # invoked => (~ctxDone /\ Left("recheck"))

\* C27: in ProcessAllWithContext a job that a worker dequeues after the
\* token is cancelled is never passed to processFunc: after each dequeue the
\* worker looks at the token again, an invocation begins only from that
\* second look and only while the token is live, so no invocation begins
\* after the cancellation.
C27_NoInvocationAfterCancel == [](C27_State) /\ [][C27_Step]_vars

C27_Witness ==
  /\ runner = "ProcessAllWithContext" /\ Returned
  /\ atCancel.cancelled /\ atCancel.invoked = 1
  /\ Total(received) > atCancel.received
  /\ Total(invoked) = 1

NothingInvoked == ctxDone /\ Total(invoked) = 0
NothingStarted == ctxDone /\ seqOrder = <<>>
C28_State ==
  runner = "ProcessAllWithContext" =>
     /\ NothingInvoked =>
          /\ results = EmptyMap /\ resultsChan = <<>>
          /\ WorkersAt("process") = {} /\ WorkersAt("send") = {}
     /\ NothingStarted => (seqResults = EmptyMap /\ seqpc # "process")
C28_Step ==
  runner = "ProcessAllWithContext" =>
     /\ NothingInvoked => Total(invoked') = 0
     /\ NothingStarted => seqOrder' = <<>>

\* C28: if the token is already cancelled when ProcessAllWithContext or
\* ProcessSequentialWithContext is called with a non-empty job list, then
\* processFunc is never invoked and the returned map is empty, whichever
\* case each worker's select takes: a cancelled token with no invocation
\* begun stays that way, and leaves the map empty.
C28_CancelledBeforeCall == [](C28_State) /\ [][C28_Step]_vars

C28_Witness ==
  /\ runner = "ProcessAllWithContext" /\ Returned /\ SequentialReturned
  /\ Len(jobs) = 3 /\ NothingInvoked /\ NothingStarted
  /\ atCancel.received = 0 /\ Total(received) = 2
  /\ results = EmptyMap /\ seqResults = EmptyMap

\* C29: with a token that is never cancelled ProcessAllWithContext behaves
\* as ProcessAll: for the same jobs and worker count each starts as many
\* workers, executes every job exactly once and, for unique identities,
\* returns the one map that holds processFunc's Result for every job.
C29_UncancelledAsProcessAll ==
  ReturnedUncancelled =>
     /\ BagCardinality(wstate) = Clamp(workersArg) /\ AllExited
     /\ \A i \in 1..Len(jobs) :
          invoked[i] = 1 /\ completed[i] = 1 /\ pushed[i] = 1
     /\ Distinct(jobs) => results = SeqMapOf(Len(jobs))

C29_Witness ==
  /\ runner = "ProcessAllWithContext" /\ Returned /\ ~ctxDone
  /\ Distinct(jobs) /\ Len(jobs) = 3 /\ workers = 2
  /\ results = SeqMapOf(3)

\* ------------------------------------------ a Pool under fair scheduling
\* The scheduler runs every goroutine that can take a step, the reader of
\* Results() among them; whether and when a further call is made on the pool
\* is its user's choice.
PoolProgress ==
  \/ NewPool
  \/ \E c \in Callers : StartSpawn(c)
  \/ \E c \in Callers : StartReturn(c)
  \/ \E c \in Callers : SubmitSend(c)
  \/ \E c \in Callers : CloseOnceDo(c)
  \/ \E c \in Callers : CloseOnceSkip(c)
  \/ \E c \in Callers : CloseJobs(c)
  \/ \E c \in Callers : CloseWait(c)
  \/ \E c \in Callers : CloseResults(c)
  \/ ReadResult
  \/ ReadEnd
  \/ WorkerStep
InitPool == Init /\ runner = "Pool"
NextPool == PoolStep \/ WorkerStep
FairPool ==
  /\ InitPool
  /\ [][NextPool]_vars
  /\ WF_vars(PoolProgress)

CloseCalled == \E c \in Callers : c.op = "Close"
StartedPool == \E c \in Callers : c.op = "Start"
EveryCloseReturned == \A c \in Callers : c.op = "Close" => c.pc = "returned"
\* The Results a consumer has taken from Results().
Consumed == Total(pushed) - Len(resultsChan)
C30_CloseReturns ==
  (CloseCalled /\ StartedPool /\ CloseCalledLast) ~>
     (EveryCloseReturned \/ ~CloseCalledLast)
C30_NotWithoutConsumer ==
  /\ (StartedPool /\ CloseCalledLast /\ CloseReturned) =>
        Consumed >= (sidx - 1) - 2 * workers
  /\ (runner = "Pool" /\ sidx - 1 <= 2 * workers /\ WorkersAt("send") # {}) =>
        Len(resultsChan) < 2 * workers

\* C30: Pool.Close on a started pool eventually returns if a consumer keeps
\* draining Results() (or the Results not yet consumed never exceed the
\* capacity 2*workerCount of the result queue); without consumption and with
\* more than 2*workerCount jobs submitted the workers block on the full
\* result queue and Close does not return: when Close has returned, all but
\* at most 2*workerCount of the Results have been consumed, and with at most
\* 2*workerCount jobs submitted no worker ever finds the result queue full.
C30_CloseNeedsConsumer == C30_CloseReturns /\ [](C30_NotWithoutConsumer)

C30_Witness ==
  /\ runner = "Pool" /\ workers = 1 /\ CloseCalledLast
  /\ \E c \in Callers : CallerAt(c, "Close", "wait")
  /\ sidx = 4 /\ Len(resultsChan) = 2 /\ Consumed = 0
  /\ WorkersAt("send") # {}

\* ------------------------------------------------------------------ C31
\* C31: the result queue of a pool with worker count W never holds more than
\* 2*W Results; in ProcessAll and in a Pool a push happens only while the
\* queue has room and appends the worker's own Result, so that a worker at a
\* full queue stays at its send, Result in hand, and the only step that
\* changes a full queue is the collector taking its head.
C31_Bound == Len(resultsChan) <= 2 * workers

C31_Step ==
  /\ (runner \in {"ProcessAll", "Pool"} /\ Left("send")) =>
       \E w \in WorkersAt("send") :
          /\ Len(resultsChan) < 2 * workers
          /\ resultsChan' = Append(resultsChan, w.result)
          /\ wstate' = WorkerMoved(w, NewWorker("recv"))
  /\ (runner \in {"ProcessAll", "Pool"} /\ resultsChan' # resultsChan
        /\ Len(resultsChan) = 2 * workers) =>
       /\ resultsChan' = Tail(resultsChan)
       /\ results' = MapPut(results, Head(resultsChan))
       /\ wstate' = wstate

C31_ResultQueueBounded == [](C31_Bound) /\ [][C31_Step]_vars

C31_Witness ==
  /\ runner = "ProcessAll" /\ workers = 1
  /\ Len(resultsChan) = 2
  /\ WorkersAt("send") # {}
  /\ mpc = "collect" /\ results = EmptyMap

\* ------------------------------------------------------------------ C32
\* The last job of the list that carries identity k.
LastIndex(k) ==
  CHOOSE i \in 1..Len(jobs) :
     /\ jobs[i].FilePath = k
     /\ \A j \in (i + 1)..Len(jobs) : jobs[j].FilePath # k

\* C32: ProcessSequential is deterministic: the map it returns is a function
\* of the job list alone (so two runs on the same list return the same map),
\* with one entry per identity, and the entry of an identity that several
\* jobs share is the Result of the last such job in list order.
C32_SequentialDeterministic ==
  (runner \in ParallelRunners /\ seqpc = "returned" /\ ~ctxDone) =>
     /\ DOMAIN seqResults = { jobs[i].FilePath : i \in 1..Len(jobs) }
     /\ \A k \in DOMAIN seqResults :
          seqResults[k] = ProcessFunc(jobs[LastIndex(k)])
     /\ seqOrder = [i \in 1..Len(jobs) |-> i]

C32_Witness ==
  /\ runner = "ProcessAll" /\ seqpc = "returned"
  /\ Len(jobs) = 3
  /\ jobs[1].FilePath = jobs[2].FilePath
  /\ jobs[3].FilePath # jobs[1].FilePath
  /\ seqResults[jobs[1].FilePath] = ProcessFunc(jobs[2])
  /\ seqResults[jobs[1].FilePath] # ProcessFunc(jobs[1])

\* ------------------------------------------------------------------ C33
\* The runners called with a processFunc that breaks the identity contract.
InitRenaming ==
  /\ Arguments /\ runner \in ParallelRunners
  /\ processFunc = "renames"
  /\ Direct /\ Setup
NextRenaming ==
  \/ WorkerStep
  \/ CtxWorkerStep
  \/ ProcessAllStep
  \/ CtxStep
  \/ SeqStep
  \/ Cancel
Renaming == InitRenaming /\ [][NextRenaming]_vars

ResultIds == { ResultPath(jobs[i]) : i \in 1..Len(jobs) }
KeyedByResult(m, ran) ==
  /\ \A k \in DOMAIN m :
       /\ m[k].FilePath = k
       /\ \E i \in ran : m[k] = ProcessFunc(jobs[i])
  /\ \A i \in 1..Len(jobs) :
       (ResultPath(jobs[i]) # jobs[i].FilePath
          /\ jobs[i].FilePath \in DOMAIN m) =>
         m[jobs[i].FilePath] # ProcessFunc(jobs[i])

\* C33: ProcessAll, ProcessAllWithContext and the sequential runner key the
\* returned map by the identity of the Result that processFunc returned, not
\* by the identity of the Job: every entry holds a Result that carries the
\* entry's own key, a Result whose identity differs from its job's is never
\* the entry of the job's identity, and an uncancelled run returns exactly
\* the identities of the Results.
C33_KeyedByResultIdentity ==
  runner \in ParallelRunners =>
     /\ KeyedByResult(results, { i \in 1..Len(jobs) : pushed[i] > 0 })
     /\ KeyedByResult(seqResults, 1..Len(seqOrder))
     /\ (Returned /\ ~ctxDone) => DOMAIN results = ResultIds
     /\ (seqpc = "returned" /\ ~ctxDone) => DOMAIN seqResults = ResultIds

C33_Witness ==
  /\ processFunc = "renames"
  /\ runner = "ProcessAllWithContext" /\ Returned /\ ~ctxDone
  /\ Len(jobs) = 3 /\ Distinct(jobs)
  /\ DOMAIN results = {2, 4}
  /\ results[2] = ProcessFunc(jobs[1])
  /\ seqpc = "returned"
  /\ seqResults[2] = ProcessFunc(jobs[2])

\* ------------------------------------------------------------------ C34
\* extractSummaries as the caller of the runners: the files it is given (one
\* job each), its flag and the number of CPUs are the inputs.
InitSummaries ==
  /\ runner = "none"
  /\ jobs \in JobLists
  /\ workersArg = 0
  /\ processFunc = "copies"
  /\ sequential \in BOOLEAN
  /\ numCPU \in 1..MaxCPU
  /\ epc = "call" /\ summaries = EmptyMap
  /\ Setup
ExtractStep == ExtractSummaries \/ ExtractReturn
NextSummaries == ExtractStep \/ ProcessAllStep \/ WorkerStep \/ SeqStep
Summaries == InitSummaries /\ [][NextSummaries]_vars

NoParallelRun ==
  /\ mpc = "call" /\ workers = 0 /\ wstate = EmptyBag
  /\ spc = "idle" /\ cpc = "idle"
  /\ \A i \in 1..Len(jobs) : invoked[i] = 0
NoSequentialRun == seqpc = "idle" /\ seqOrder = <<>>

\* C34: extractSummaries invokes no runner for an empty file list; otherwise
\* it calls ProcessSequential (and not ProcessAll) when the single-threaded
\* flag is set, and else ProcessAll (and not ProcessSequential) with a worker
\* count of min(number of CPUs, number of files), which lies between 1 and
\* the number of jobs and is the size of the pool that is built.
C34_RunnerChoice ==
  epc # "idle" =>
     /\ (epc = "call" \/ Len(jobs) = 0) =>
          /\ runner = "none"
          /\ NoParallelRun /\ NoSequentialRun
     /\ (epc # "call" /\ Len(jobs) > 0 /\ sequential) =>
          /\ runner = "ProcessSequential"
          /\ NoParallelRun
     /\ (epc # "call" /\ Len(jobs) > 0 /\ ~sequential) =>
          /\ runner = "ProcessAll"
          /\ NoSequentialRun
          /\ workersArg = Min(numCPU, Len(jobs))
          /\ 1 <= workersArg /\ workersArg <= Len(jobs)
          /\ workers \in {0, workersArg}
          /\ BagCardinality(wstate) \in {0, workersArg}
     /\ epc = "returned" =>
          /\ Len(jobs) > 0 => (IF sequential THEN seqpc ELSE mpc) = "returned"
          /\ summaries =
               Convert(IF sequential THEN seqResults ELSE results)

C34_Witness ==
  /\ epc = "returned" /\ ~sequential
  /\ numCPU = 4 /\ Len(jobs) = 3 /\ Distinct(jobs)
  /\ runner = "ProcessAll" /\ workers = 3
  /\ DOMAIN summaries = {Rel(1), Rel(3)}

====
